---- MODULE Spec2Model ----
(***************************************************************************)
(* Model of the request orchestration of the drawing-to-painting frontend  *)
(* (src/frontend/app.py): the backend-calling functions with their retry   *)
(* loops and fallbacks, the Generate handler that drives them, and the     *)
(* parameter resolver get_parameters_from_preset.                          *)
(*                                                                         *)
(* A network call (requests.post, gradio Client.predict) is an input of    *)
(* the environment: each call draws one outcome class from Outcomes.       *)
(* Strings that the code searches with `in` are sequences of characters.   *)
(***************************************************************************)
EXTENDS Integers, Sequences, FiniteSets, TLC

\* one more attempt than the code allows
max_retries_four == 3 + 1

\* max_retries = 3 in every retry loop of app.py
max_retries == 3

(***************************************************************************)
(* Outcome classes of one network call.                                    *)
(*   timeout      requests.exceptions.Timeout is raised                    *)
(*   connerr      requests.exceptions.ConnectionError (not a timeout)      *)
(*   ok_image     HTTP 200 with the success payload of the adapter         *)
(*   ok_noimage   HTTP 200, parseable body without the expected field      *)
(*   ok_badjson   HTTP 200, body that response.json() cannot parse         *)
(*   ok_badimage  HTTP 200, payload present but not a decodable image      *)
(*   s404, s500   HTTP 404, any other non-200 status                       *)
(***************************************************************************)
Outcomes ==
  {"timeout", "connerr", "ok_image", "ok_noimage", "ok_badjson",
   "ok_badimage", "s404", "s500"}

\* MODEL_OPTIONS of app.py
MODEL_OPTIONS ==
  {"Pix2Pix", "ControlNet", "FLUX", "SDXL ControlNet (HF)",
   "SDXL ControlNet (Kaggle)", "SDXL + ControlNet (Kaggle)",
   "SDXL + ControlNet Official (Kaggle)", "Linoyts Approach (Kaggle)",
   "3D Model (HF)"}

\* the three functions that share the "remote, then local ControlNet" shape
RemoteFns == {"kaggle", "union", "linoyts"}

VARIABLES
  urlPlaceholder,  \* "your-ngrok-url-here" in get_backend_url()
  hfToken,         \* HF_TOKEN is set to a usable value
  pc,              \* position of the running request
  fn,              \* backend-calling function that is running, "-" if none
  caller,          \* "handler" (Generate click) or "direct" (function called on its own)
  model,           \* model selected in the sidebar, "-" for a direct call
  realCreative,    \* detected_style = "realistic" and "Creative" in preset_choice
  attempt,         \* loop variable of the retry loop
  trace,           \* network calls and sleeps made so far, in order
  ret,             \* return value of the backend-calling function
  backend_url,     \* binding of the script variable backend_url
  shown,           \* result images displayed by the handler (st.image)
  reported,        \* failures reported by the handler (st.error)
  stopped,         \* st.stop() ended the script run
  crashed,         \* an exception left the script uncaught
  p_pc,            \* "idle" before, "resolved" after get_parameters_from_preset
  art_style,       \* argument art_style
  sketch_type,     \* argument sketch_type
  preset_choice,   \* argument preset_choice, a sequence of characters
  resolved,        \* what get_parameters_from_preset returned
  c_pc,            \* "idle" before, "composed" after a prompt composition
  c_fn,            \* the code that composed: "theme", "enhanced", "handler", "backend"
  c_model,         \* model of the Generate handler, or the backend function
  subject_type,    \* sidebar "Subject Type"
  theme,           \* sidebar "Theme"
  prompt,          \* the free text of the user
  c_sketch_type,   \* st.session_state.sketch_type / argument sketch_type
  manual_style,    \* st.session_state.art_style / argument art_style
  negative_prompt, \* handler variable / argument negative_prompt
  enhanced_prompt, \* positive prompt of the request
  enhanced_negative, \* negative prompt of the request
  detected_style,  \* style the request is sent with
  template,        \* the positive prompt with its slots left open
  prev,            \* pair and template of the composition before this one
  d_pc,            \* "idle", "responded", "decoded"
  image_bytes,     \* the bytes of the generated image, on the server
  response,        \* the response as it arrives at the frontend
  result_image,    \* what the adapter hands to its caller
  r_pc,            \* "idle" before, "built" after json_data is prepared
  control_type,    \* argument control_type of call_enhanced_controlnet_api
  json_data,       \* the parameters of the request body
  a_pc,            \* position in a script run: "idle" between runs
  runs,            \* script runs finished
  smart_mode,      \* st.session_state.smart_mode
  canvas_data,     \* st.session_state.canvas_data is not None
  analyze_clicked, \* this run was started by "Analyze Sketch with AI"
  generate_clicked, \* this run was started by "Generate Painting"
  trigger_auto_generation, \* st.session_state.trigger_auto_generation
  click_calls,     \* calls of the sketch-analysis service in this run
  triggers_set,    \* analyses that set the trigger so far
  auto_generations, \* generations started by the trigger so far
  n_pc,            \* "file" while ngrok_config.py is only a file, "imported" after import
  ngrok_file,      \* the three URL literals of ngrok_config.py
  new_urls,        \* the URLs the script was run with, in order
  CURRENT_NGROK_URL, \* the module global after import, "-" before
  b_pc,            \* backend endpoint: "idle", "dispatch", "done"
  b_model,         \* form field model of the request
  final_prompt,    \* final_prompt of generate
  b_calls,         \* generations and forwards made for the request, in order
  b_response,      \* what the endpoint answers
  g_pc,            \* gradio helper: "idle", "client", "stage2", "fallback", "returned", "raised"
  g_fn,            \* the gradio helper that is running
  g_calls,         \* calls of the gradio helpers so far
  temp_files,      \* temporary files that exist on disk
  temp_image_path, \* local temp_image_path; NoPath while it is not bound
  g_created,       \* the file created for the current call, NoPath if none
  g_exit,          \* exit path taken by the current call
  g_trace          \* remote calls of the current call and their outcomes, in order

presetVars == <<p_pc, art_style, sketch_type, preset_choice, resolved>>

promptIn ==
  <<c_fn, c_model, subject_type, theme, prompt, c_sketch_type, manual_style>>
promptOut ==
  <<negative_prompt, enhanced_prompt, enhanced_negative, detected_style, template>>
promptVars == <<c_pc, promptIn, promptOut, prev>>

decodeVars == <<d_pc, image_bytes, response, result_image>>

requestVars == <<r_pc, control_type, json_data>>

analysisVars ==
  <<a_pc, runs, smart_mode, canvas_data, analyze_clicked, generate_clicked,
    trigger_auto_generation, click_calls, triggers_set, auto_generations>>

ngrokVars == <<n_pc, ngrok_file, new_urls, CURRENT_NGROK_URL>>

backendVars == <<b_pc, b_model, final_prompt, b_calls, b_response>>

gradioVars == <<g_pc, g_fn, g_calls, temp_files, temp_image_path, g_created, g_exit,
               g_trace>>

auxVars == <<requestVars, analysisVars, ngrokVars, backendVars, gradioVars>>

\* the groups an action of one group leaves alone
notRequestVars == <<analysisVars, ngrokVars, backendVars, gradioVars>>
notAnalysisVars == <<requestVars, ngrokVars, backendVars, gradioVars>>
notNgrokVars == <<requestVars, analysisVars, backendVars, gradioVars>>
notBackendVars == <<requestVars, analysisVars, ngrokVars, gradioVars>>
notGradioVars == <<requestVars, analysisVars, ngrokVars, backendVars>>

vars ==
  <<urlPlaceholder, hfToken, pc, fn, caller, model, realCreative, attempt,
    trace, ret, backend_url, shown, reported, stopped, crashed, presetVars,
    promptVars, decodeVars, auxVars>>

Call(b, o) == [k |-> "call", b |-> b, o |-> o]
Sleep(b, s) == [k |-> "sleep", b |-> b, o |-> s]

Pending == [kind |-> "pending", by |-> "-"]
RetNone == [kind |-> "None", by |-> "-"]
RetImage(b) == [kind |-> "image", by |-> b]

\* the calls of the trace made to backend b, in order
RECURSIVE CallsTo(_, _)
CallsTo(t, b) ==
  IF t = <<>> THEN <<>>
  ELSE IF Head(t).k = "call" /\ Head(t).b = b
       THEN <<Head(t).o>> \o CallsTo(Tail(t), b)
       ELSE CallsTo(Tail(t), b)

\* the backends called, in call order
RECURSIVE CallOrder(_)
CallOrder(t) ==
  IF t = <<>> THEN <<>>
  ELSE IF Head(t).k = "call"
       THEN <<Head(t).b>> \o CallOrder(Tail(t))
       ELSE CallOrder(Tail(t))

\* off by one: gives up one attempt early
RetryAllowed_early(a) == a < max_retries - 2

\* `attempt < max_retries - 1`: the guard of every retry
RetryAllowed(a) == a < max_retries - 1

\* `for attempt in range(max_retries)`: `continue` in iteration a starts
\* another iteration
RangeHasNext(a) == a + 1 < max_retries

(***************************************************************************)
(* Decisions of the retry loops: what the code does with the outcome o of  *)
(* attempt a.  "return" = return the image, "retry" = sleep and loop,      *)
(* "fallback" = return call_local_controlnet_fallback(...),                *)
(* "break" = leave the loop with the response, "stop" = st.stop().         *)
(***************************************************************************)

\* the image of a 200 response is not returned: the function falls back
KaggleNext_ignoresImage(o, a) ==
  CASE o = "s404" -> IF a < max_retries - 1 THEN "retry" ELSE "fallback"
    [] o = "timeout" -> IF a < max_retries - 1 THEN "retry" ELSE "fallback"
    [] OTHER -> "fallback"

\* every non-200 status is retried like a 404
KaggleNext_retriesAnyStatus(o, a) ==
  CASE o = "ok_image" -> "return"
    [] o = "ok_noimage" -> "fallback"
    [] o \in {"s404", "s500"} -> IF a < max_retries - 1 THEN "retry" ELSE "fallback"
    [] o = "timeout" -> IF a < max_retries - 1 THEN "retry" ELSE "fallback"
    [] OTHER -> "fallback"

\* call_kaggle_sdxl_api and call_controlnet_union_official_api: the loop
\* catches only requests.exceptions.Timeout; every other exception reaches
\* the outer `except Exception`, which falls back
KaggleNext(o, a) ==
  CASE o = "ok_image" -> "return"
    [] o = "ok_noimage" -> "fallback"
    [] o = "s404" -> IF RetryAllowed(a) THEN "retry" ELSE "fallback"
    [] o = "s500" -> "fallback"
    [] o = "timeout" -> IF RetryAllowed(a) THEN "retry" ELSE "fallback"
    [] OTHER -> "fallback"

\* call_linoyts_approach_api: the loop also has `except Exception as inner_e`,
\* which retries whatever was raised (connection error, response.json(),
\* base64.b64decode, bytes_to_image)
LinoytsNext(o, a) ==
  CASE o = "ok_image" -> "return"
    [] o = "ok_noimage" -> "fallback"
    [] o = "s404" -> IF RetryAllowed(a) THEN "retry" ELSE "fallback"
    [] o = "s500" -> "fallback"
    [] o = "timeout" -> IF RetryAllowed(a) THEN "retry" ELSE "fallback"
    [] OTHER -> IF RetryAllowed(a) THEN "retry" ELSE "fallback"

RemoteNext(f, o, a) ==
  IF f = "linoyts" THEN LinoytsNext(o, a) ELSE KaggleNext(o, a)

\* the retry loop of call_enhanced_controlnet_api and of the two inline
\* "SDXL + ControlNet" branches: only the request is inside the loop
EnhancedNext(o, a) ==
  IF o \in {"timeout", "connerr"}
  THEN IF RetryAllowed(a) THEN "retry" ELSE "stop"
  ELSE "break"

\* time.sleep(2), and time.sleep(3) after a connection error in the loops
\* that catch it
BackoffSecs(f, o) ==
  IF f \in {"enhanced", "inline"} /\ o = "connerr" THEN 3 ELSE 2

\* the multipart adapters read response.content as the image
RawImageOk(o) == o = "ok_image"
Status200(o) == o \in {"ok_image", "ok_noimage", "ok_badjson", "ok_badimage"}
Raises(o) == o \in {"timeout", "connerr"}


(***************************************************************************)
(* The parameter resolver.  Floats of the table are kept in hundredths     *)
(* (0.95 is 95, 6.5 is 650); strings searched with `in` are sequences of   *)
(* characters.                                                             *)
(***************************************************************************)

\* longest concatenation of fragments tried as preset_choice
MaxFragments == 2

s_Creative == <<"C", "r", "e", "a", "t", "i", "v", "e">>
s_Balanced == <<"B", "a", "l", "a", "n", "c", "e", "d">>
s_Default == <<"D", "e", "f", "a", "u", "l", "t">>
s_Recommended == <<" ", "(", "R", "e", "c", "o", "m", "m", "e", "n", "d", "e", "d", ")">>
s_creative_lc == <<"c", "r", "e", "a", "t", "i", "v", "e">>
s_Creat == <<"C", "r", "e", "a", "t">>
s_ive == <<"i", "v", "e">>
s_SimpleSketch == <<" ", "(", "S", "i", "m", "p", "l", "e", " ", "S", "k", "e", "t", "c", "h", ")">>

Fragments ==
  {s_Creative, s_Balanced, s_Default, s_Recommended, s_creative_lc,
   s_Creat, s_ive, s_SimpleSketch}

RECURSIVE Concats(_)
Concats(n) ==
  IF n = 0 THEN {<<>>}
  ELSE Concats(n - 1) \cup {x \o f : x \in Concats(n - 1), f \in Fragments}

TierStrings == Concats(MaxFragments)
Styles == {"realistic", "cartoon", "ultra_realistic", "anime", "Realistic"}
SketchTypes == {"face", "full_body", "hand", "Face"}

\* Python `sub in s` on strings: sub occurs at some position of s
StartsAt(s, sub, i) ==
  /\ i + Len(sub) - 1 <= Len(s)
  /\ \A j \in 1..Len(sub) : s[i + j - 1] = sub[j]

Contains(s, sub) == \E i \in 1..(Len(s) - Len(sub) + 1) : StartsAt(s, sub, i)

\* an entry whose step count is lost
P_zeroSteps(c, g, n, t) ==
  [controlnet_conditioning_scale |-> c, guidance_scale |-> g,
   num_inference_steps |-> 0, control_type |-> t]

P(c, g, n, t) ==
  [controlnet_conditioning_scale |-> c, guidance_scale |-> g,
   num_inference_steps |-> n, control_type |-> t]

PRESET_PARAMETERS ==
  [realistic |->
     [face |-> [Default |-> P(95, 650, 30, "scribble"),
                Balanced |-> P(90, 600, 30, "scribble"),
                Creative |-> P(80, 700, 30, "scribble")],
      full_body |-> [Default |-> P(60, 800, 30, "scribble"),
                     Balanced |-> P(70, 750, 30, "scribble"),
                     Creative |-> P(80, 700, 30, "scribble")]],
   cartoon |->
     [face |-> [Default |-> P(95, 700, 32, "scribble"),
                Balanced |-> P(90, 650, 34, "scribble"),
                Creative |-> P(80, 600, 36, "scribble")],
      full_body |-> [Default |-> P(95, 700, 32, "scribble"),
                     Balanced |-> P(90, 650, 34, "scribble"),
                     Creative |-> P(80, 600, 36, "scribble")]],
   ultra_realistic |->
     [face |-> [Default |-> P(95, 700, 32, "canny"),
                Balanced |-> P(90, 650, 34, "canny"),
                Creative |-> P(58, 300, 36, "canny")],
      full_body |-> [Default |-> P(95, 700, 32, "canny"),
                     Balanced |-> P(40, 800, 34, "canny"),
                     Creative |-> P(40, 800, 36, "canny")]]]

\* the two tests in the other order
PresetKey_balancedFirst(choice) ==
  IF Contains(choice, s_Balanced) THEN "Balanced"
  ELSE IF Contains(choice, s_Creative) THEN "Creative"
  ELSE "Default"

\* the if/elif/else that extracts preset_key from preset_choice
PresetKey(choice) ==
  IF Contains(choice, s_Creative) THEN "Creative"
  ELSE IF Contains(choice, s_Balanced) THEN "Balanced"
  ELSE "Default"

\* the tier key is ignored: every lookup reads the Default tier
Lookup_defaultTier(a, s, k) ==
  IF /\ a \in DOMAIN PRESET_PARAMETERS
     /\ s \in DOMAIN PRESET_PARAMETERS[a]
     /\ k \in DOMAIN PRESET_PARAMETERS[a][s]
  THEN [ok |-> TRUE, v |-> PRESET_PARAMETERS[a][s]["Default"]]
  ELSE [ok |-> FALSE, v |-> P(0, 0, 0, "-")]

\* the Creative tier of cartoon full_body is not found
Lookup_missingTier(a, s, k) ==
  IF /\ a \in DOMAIN PRESET_PARAMETERS
     /\ s \in DOMAIN PRESET_PARAMETERS[a]
     /\ k \in DOMAIN PRESET_PARAMETERS[a][s]
     /\ <<a, s, k>> # <<"cartoon", "full_body", "Creative">>
  THEN [ok |-> TRUE, v |-> PRESET_PARAMETERS[a][s][k]]
  ELSE [ok |-> FALSE, v |-> P(0, 0, 0, "-")]

\* PRESET_PARAMETERS[a][s][k]; ok is FALSE where Python raises KeyError
Lookup(a, s, k) ==
  IF /\ a \in DOMAIN PRESET_PARAMETERS
     /\ s \in DOMAIN PRESET_PARAMETERS[a]
     /\ k \in DOMAIN PRESET_PARAMETERS[a][s]
  THEN [ok |-> TRUE, v |-> PRESET_PARAMETERS[a][s][k]]
  ELSE [ok |-> FALSE, v |-> P(0, 0, 0, "-")]

\* {k: v for k, v in params_dict.items() if k != "control_type"}
WithoutControlType(d) == [k \in DOMAIN d \ {"control_type"} |-> d[k]]

\* the fallback reads another tier
FallbackKeys_balanced == <<"realistic", "face", "Balanced">>

\* the keys of the `except KeyError` branch
FallbackKeys == <<"realistic", "face", "Default">>

NoResult ==
  [raised |-> FALSE, diag |-> FALSE, preset_key |-> "-",
   optimal_params |-> WithoutControlType(P(0, 0, 0, "-")), control_type |-> "-"]

\* get_parameters_from_preset(art_style, sketch_type, preset_choice):
\* diag is the st.error("Parameter lookup error ...") of the except branch,
\* raised an exception that leaves the function
get_parameters_from_preset(a, s, choice) ==
  LET preset_key == PresetKey(choice)
      hit == Lookup(a, s, preset_key)
      fb == Lookup(FallbackKeys[1], FallbackKeys[2], FallbackKeys[3])
  IN  IF hit.ok
      THEN [raised |-> FALSE, diag |-> FALSE, preset_key |-> preset_key,
            optimal_params |-> WithoutControlType(hit.v),
            control_type |-> hit.v.control_type]
      ELSE IF fb.ok
      THEN [raised |-> FALSE, diag |-> TRUE, preset_key |-> preset_key,
            optimal_params |-> WithoutControlType(fb.v),
            control_type |-> fb.v.control_type]
      ELSE [NoResult EXCEPT !.raised = TRUE, !.diag = TRUE,
                            !.preset_key = preset_key]

PresetIdle ==
  /\ p_pc = "idle"
  /\ art_style = "realistic"
  /\ sketch_type = "face"
  /\ preset_choice = <<>>
  /\ resolved = NoResult

DispatchIdle ==
  /\ pc = "idle"
  /\ fn = "-"
  /\ caller = "-"
  /\ model = "-"
  /\ realCreative = FALSE
  /\ attempt = 0
  /\ trace = <<>>
  /\ ret = Pending
  /\ backend_url = "unbound"
  /\ shown = 0
  /\ reported = 0
  /\ stopped = FALSE
  /\ crashed = FALSE

NoPrev == [art_style |-> "-", sketch_type |-> "-", template |-> "-"]

PromptIdle ==
  /\ c_pc = "idle"
  /\ c_fn = "-"
  /\ c_model = "-"
  /\ subject_type = "Human"
  /\ theme = ""
  /\ prompt = ""
  /\ c_sketch_type = "face"
  /\ manual_style = "realistic"
  /\ negative_prompt = ""
  /\ enhanced_prompt = ""
  /\ enhanced_negative = ""
  /\ detected_style = "-"
  /\ template = "-"
  /\ prev = NoPrev

NoResponse == [shape |-> "-", content_type |-> "", content |-> <<>>, image |-> "", path |-> "", files |-> <<>>]
NoImage == [opened |-> FALSE, data |-> <<>>]

DecodeIdle ==
  /\ d_pc = "idle"
  /\ image_bytes = <<>>
  /\ response = NoResponse
  /\ result_image = NoImage

NoRequest ==
  [control_type |-> "-", controlnet_conditioning_scale |-> 0,
   guidance_scale |-> 0, num_inference_steps |-> 0,
   control_guidance_end |-> 0, use_refiner |-> FALSE]

RequestIdle ==
  /\ r_pc = "idle"
  /\ control_type = "scribble"
  /\ json_data = NoRequest

AnalysisIdle ==
  /\ a_pc = "idle"
  /\ runs = 0
  /\ smart_mode = "none"
  /\ canvas_data = FALSE
  /\ analyze_clicked = FALSE
  /\ generate_clicked = FALSE
  /\ trigger_auto_generation = FALSE
  /\ click_calls = 0
  /\ triggers_set = 0
  /\ auto_generations = 0

\* ngrok_config.py as committed: the URL of the assignment, of the pattern
\* of re.sub and of its replacement
CommittedUrl == "https://9ca1342d4666.ngrok-free.app"

CommittedFile ==
  [assignment |-> CommittedUrl, pattern |-> CommittedUrl,
   replacement |-> CommittedUrl]

NgrokIdle ==
  /\ n_pc = "file"
  /\ ngrok_file = CommittedFile
  /\ new_urls = <<>>
  /\ CURRENT_NGROK_URL = "-"

NoReply == [status |-> 0, media |-> "-", by |-> "-"]

BackendIdle ==
  /\ b_pc = "idle"
  /\ b_model = "-"
  /\ final_prompt = ""
  /\ b_calls = <<>>
  /\ b_response = NoReply

NoPath == 0

GradioIdle ==
  /\ g_pc = "idle"
  /\ g_fn = "-"
  /\ g_calls = 0
  /\ temp_files = {}
  /\ temp_image_path = NoPath
  /\ g_created = NoPath
  /\ g_exit = "-"
  /\ g_trace = <<>>

AuxIdle ==
  /\ RequestIdle
  /\ AnalysisIdle
  /\ NgrokIdle
  /\ BackendIdle
  /\ GradioIdle

Init ==
  /\ urlPlaceholder \in BOOLEAN
  /\ hfToken \in BOOLEAN
  /\ DispatchIdle
  /\ PresetIdle
  /\ PromptIdle
  /\ DecodeIdle
  /\ AuxIdle

Config == <<urlPlaceholder, hfToken>>
Screen == <<shown, reported, stopped, crashed>>

\* the branch of the Generate handler that model m selects
BranchOf(m) ==
  CASE m \in {"SDXL + ControlNet (Kaggle)", "SDXL + ControlNet Official (Kaggle)"}
         -> "inline"
    [] m = "Linoyts Approach (Kaggle)" -> "linoyts"
    [] m = "3D Model (HF)" -> "call_3d"
    [] m = "SDXL ControlNet (HF)" -> "hf"
    [] m = "SDXL ControlNet (Kaggle)" -> "kaggle"
    [] m = "ControlNet" -> "controlnet"
    [] OTHER -> "generic"

EntryPc(b) ==
  CASE b \in RemoteFns -> "remote_entry"
    [] b = "hf" -> "hf_entry"
    [] b = "call_3d" -> "td_stage1"
    [] b = "enhanced" -> "enh_entry"
    [] b = "inline" -> "inline_loop"
    [] OTHER -> "generic"

\* Click on "Generate Painting": image conversion, then the branch selection
\* up to the first network call
GenerateClick ==
  /\ pc = "idle"
  /\ \E m \in MODEL_OPTIONS, rc \in BOOLEAN, imgOk \in BOOLEAN :
       /\ model' = m
       /\ realCreative' = rc
       /\ caller' = "handler"
       /\ IF ~imgOk
          THEN \* "Failed to convert image to bytes", st.stop()
               /\ reported' = reported + 1
               /\ stopped' = TRUE
               /\ pc' = "done"
               /\ UNCHANGED <<fn, backend_url>>
          ELSE IF BranchOf(m) = "inline" /\ urlPlaceholder
          THEN \* "Backend URL not configured", st.stop()
               /\ reported' = reported + 1
               /\ stopped' = TRUE
               /\ pc' = "done"
               /\ backend_url' = "ngrok"
               /\ fn' = "inline"
          ELSE /\ pc' = EntryPc(BranchOf(m))
               /\ fn' = IF BranchOf(m) \in {"controlnet", "generic"}
                        THEN "-" ELSE BranchOf(m)
               /\ backend_url' =
                    CASE BranchOf(m) \in {"inline", "controlnet"} -> "ngrok"
                      [] BranchOf(m) = "generic" -> "localhost"
                      [] OTHER -> "unbound"
               /\ UNCHANGED <<reported, stopped>>
  /\ UNCHANGED <<presetVars, promptVars, decodeVars, auxVars, Config, attempt, trace, ret, shown, crashed>>

\* call_controlnet_union_official_api and call_enhanced_controlnet_api have
\* no call site in the handler: they are entered on their own
DirectCall ==
  /\ pc = "idle"
  /\ \E f \in {"union", "enhanced", "kaggle", "linoyts"} :
       /\ fn' = f
       /\ pc' = EntryPc(f)
  /\ caller' = "direct"
  /\ UNCHANGED <<presetVars, promptVars, decodeVars, auxVars, Config, model, realCreative, attempt, trace, ret,
                 backend_url, Screen>>

\* entry of the three remote functions: the placeholder check
RemoteEntry ==
  /\ pc = "remote_entry"
  /\ fn \in RemoteFns
  /\ pc' = IF urlPlaceholder THEN "local" ELSE "remote_loop"
  /\ attempt' = 0
  /\ UNCHANGED <<presetVars, promptVars, decodeVars, auxVars, Config, fn, caller, model, realCreative, trace, ret,
                 backend_url, Screen>>

\* one iteration of `for attempt in range(max_retries)`
RemoteAttempt ==
  /\ pc = "remote_loop"
  /\ fn \in RemoteFns
  /\ \E o \in Outcomes :
       LET d == RemoteNext(fn, o, attempt)
           more == RangeHasNext(attempt)
       IN
       /\ trace' = IF d = "retry"
                   THEN trace \o <<Call(fn, o), Sleep(fn, BackoffSecs(fn, o))>>
                   ELSE Append(trace, Call(fn, o))
       /\ attempt' = IF d = "retry" /\ more THEN attempt + 1 ELSE attempt
       /\ pc' = CASE d = "retry" /\ more -> "remote_loop"
                  \* the loop ran out: call_linoyts_approach_api falls back,
                  \* the other two reach the end of the function
                  [] d = "retry" /\ ~more ->
                       IF fn = "linoyts" THEN "local" ELSE "returned"
                  [] d = "return" -> "returned"
                  [] OTHER -> "local"
       /\ ret' = CASE d = "return" -> RetImage(fn)
                   [] d = "retry" /\ ~more /\ fn # "linoyts" -> RetNone
                   [] OTHER -> ret
  /\ UNCHANGED <<presetVars, promptVars, decodeVars, auxVars, Config, fn, caller, model, realCreative, backend_url, Screen>>

\* call_local_controlnet_fallback(image_bytes, prompt, negative_prompt)
LocalFallback ==
  /\ pc = "local"
  /\ IF urlPlaceholder
     THEN /\ ret' = RetNone
          /\ UNCHANGED trace
     ELSE \E o \in Outcomes :
            /\ trace' = Append(trace, Call("local", o))
            /\ ret' = IF RawImageOk(o) THEN RetImage("local") ELSE RetNone
  /\ pc' = "returned"
  /\ UNCHANGED <<presetVars, promptVars, decodeVars, auxVars, Config, fn, caller, model, realCreative, attempt,
                 backend_url, Screen>>

\* call_hf_sdxl_api up to its first backend: the token check
HfEntry ==
  /\ pc = "hf_entry"
  /\ pc' = IF hfToken THEN "hf_http" ELSE "local"
  /\ attempt' = 0
  /\ UNCHANGED <<presetVars, promptVars, decodeVars, auxVars, Config, fn, caller, model, realCreative, trace, ret,
                 backend_url, Screen>>

\* the two endpoints in the other order
HttpEndpoints_swapped == <<"http2", "http1">>

\* sdxl_endpoints of call_sdxl_http_api, in list order
HttpEndpoints == <<"http1", "http2">>

\* call_sdxl_http_api: one iteration of `for endpoint in sdxl_endpoints`;
\* a 200 whose body holds an image returns it, everything else goes on to
\* the next endpoint, and after the last one call_hf_sdxl_api tries Gradio
HfHttp ==
  /\ pc = "hf_http"
  /\ \E o \in Outcomes :
       /\ trace' = Append(trace, Call(HttpEndpoints[attempt + 1], o))
       /\ IF o = "ok_image"
          THEN /\ ret' = RetImage(HttpEndpoints[attempt + 1])
               /\ pc' = "returned"
               /\ UNCHANGED attempt
          ELSE /\ UNCHANGED ret
               /\ IF attempt + 1 < Len(HttpEndpoints)
                  THEN pc' = "hf_http" /\ attempt' = attempt + 1
                  ELSE pc' = "hf_gradio" /\ UNCHANGED attempt
  /\ UNCHANGED <<presetVars, promptVars, decodeVars, auxVars, Config, fn, caller, model, realCreative, backend_url, Screen>>

\* call_sdxl_gradio_api: one client.predict, or none when gradio_client
\* cannot be imported; without an image call_hf_sdxl_api goes on to the
\* local ControlNet backend
HfGradio ==
  /\ pc = "hf_gradio"
  /\ \/ /\ pc' = "local"
        /\ UNCHANGED <<trace, ret>>
     \/ \E o \in Outcomes :
          /\ trace' = Append(trace, Call("gradio", o))
          /\ IF o = "ok_image"
             THEN ret' = RetImage("gradio") /\ pc' = "returned"
             ELSE UNCHANGED ret /\ pc' = "local"
  /\ UNCHANGED <<presetVars, promptVars, decodeVars, auxVars, Config, fn, caller, model, realCreative, attempt,
                 backend_url, Screen>>

\* call_3d_model_api, stage 1 (client.predict .../preprocess_image)
TdStage1 ==
  /\ pc = "td_stage1"
  /\ \/ \E o \in Outcomes :
          /\ trace' = Append(trace, Call("td_stage1", o))
          /\ CASE o = "ok_image" -> pc' = "td_stage2" /\ UNCHANGED ret
               [] o = "ok_noimage" -> pc' = "returned" /\ ret' = RetNone
               [] OTHER -> pc' = "td_local" /\ UNCHANGED ret
          /\ UNCHANGED crashed
     \/ \* gradio_client cannot be imported: the function has no
        \* `except ImportError`, the exception leaves it and the script
        /\ crashed' = TRUE
        /\ pc' = "done"
        /\ UNCHANGED <<trace, ret>>
  /\ UNCHANGED <<presetVars, promptVars, decodeVars, auxVars, Config, fn, caller, model, realCreative, attempt,
                 backend_url, shown, reported, stopped>>

\* call_3d_model_api, stage 2 (client.predict .../image_to_3d)
TdStage2 ==
  /\ pc = "td_stage2"
  /\ \E o \in Outcomes :
       /\ trace' = Append(trace, Call("td_stage2", o))
       /\ CASE o = "ok_image" ->
                 pc' = "returned" /\ ret' = [kind |-> "3d", by |-> "td_stage2"]
            [] o = "ok_noimage" -> pc' = "returned" /\ ret' = RetNone
            [] OTHER -> pc' = "td_local" /\ UNCHANGED ret
  /\ UNCHANGED <<presetVars, promptVars, decodeVars, auxVars, Config, fn, caller, model, realCreative, attempt,
                 backend_url, Screen>>

\* call_3d_model_api, `except Exception`: the inline copy of the local
\* fallback, which posts to get_backend_url() without looking at the URL
TdLocal ==
  /\ pc = "td_local"
  /\ \E o \in Outcomes :
       /\ trace' = Append(trace, Call("td_local", o))
       /\ ret' = IF RawImageOk(o)
                 THEN [kind |-> "image_dict", by |-> "td_local"]
                 ELSE RetNone
  /\ pc' = "returned"
  /\ UNCHANGED <<presetVars, promptVars, decodeVars, auxVars, Config, fn, caller, model, realCreative, attempt,
                 backend_url, Screen>>

\* call_enhanced_controlnet_api up to the retry loop
EnhEntry ==
  /\ pc = "enh_entry"
  /\ IF urlPlaceholder
     THEN pc' = "returned" /\ ret' = RetNone
     ELSE pc' = "enh_loop" /\ UNCHANGED ret
  /\ attempt' = 0
  /\ UNCHANGED <<presetVars, promptVars, decodeVars, auxVars, Config, fn, caller, model, realCreative, trace,
                 backend_url, Screen>>

\* call_enhanced_controlnet_api: one iteration of the retry loop and, once
\* a response is there, the code after the loop
EnhAttempt ==
  /\ pc = "enh_loop"
  /\ \E o \in Outcomes :
       LET d == EnhancedNext(o, attempt)
           more == RangeHasNext(attempt)
       IN
       /\ trace' = IF d = "retry"
                   THEN trace \o <<Call("enhanced", o),
                                   Sleep("enhanced", BackoffSecs("enhanced", o))>>
                   ELSE Append(trace, Call("enhanced", o))
       /\ attempt' = IF d = "retry" /\ more THEN attempt + 1 ELSE attempt
       /\ CASE d = "retry" /\ more ->
                 pc' = "enh_loop" /\ UNCHANGED <<ret, stopped>>
            [] d = "retry" /\ ~more ->
                 \* the loop ran out without a response: NameError on
                 \* `response`, caught by `except Exception`
                 pc' = "returned" /\ ret' = RetNone /\ UNCHANGED stopped
            [] d = "stop" -> pc' = "done" /\ stopped' = TRUE /\ UNCHANGED ret
            [] OTHER ->
                 /\ pc' = "returned"
                 /\ ret' = IF o = "ok_image" THEN RetImage("enhanced") ELSE RetNone
                 /\ UNCHANGED stopped
  /\ UNCHANGED <<presetVars, promptVars, decodeVars, auxVars, Config, fn, caller, model, realCreative, backend_url,
                 shown, reported, crashed>>

\* the inline dispatch of the branches "SDXL + ControlNet (Kaggle)" and
\* "SDXL + ControlNet Official (Kaggle)": one iteration of the retry loop
\* and, once a response is there, the processing of the response
InlineAttempt ==
  /\ pc = "inline_loop"
  /\ \E o \in Outcomes :
       LET d == EnhancedNext(o, attempt)
           more == RangeHasNext(attempt)
       IN
       /\ trace' = IF d = "retry"
                   THEN trace \o <<Call("inline", o),
                                   Sleep("inline", BackoffSecs("inline", o))>>
                   ELSE Append(trace, Call("inline", o))
       /\ attempt' = IF d = "retry" /\ more THEN attempt + 1 ELSE attempt
       /\ CASE d = "retry" /\ more ->
                 pc' = "inline_loop" /\ UNCHANGED <<shown, reported, stopped>>
            [] d = "break" /\ o = "ok_image" ->
                 \* success: the script goes on after the if/elif chain
                 /\ pc' = "generic"
                 /\ shown' = IF model = "SDXL + ControlNet (Kaggle)" /\ realCreative
                             THEN shown ELSE shown + 1
                 /\ UNCHANGED <<reported, stopped>>
            [] OTHER ->
                 \* st.error(...) and st.stop()
                 /\ pc' = "done"
                 /\ reported' = reported + 1
                 /\ stopped' = TRUE
                 /\ UNCHANGED shown
  /\ UNCHANGED <<presetVars, promptVars, decodeVars, auxVars, Config, fn, caller, model, realCreative, ret, backend_url,
                 crashed>>

\* the handler after its backend-calling function returned
HandlerResult ==
  /\ pc = "returned"
  /\ caller = "handler"
  /\ CASE fn = "call_3d" /\ ret.kind = "3d" ->
            \* show_curtain_reveal(result_image): result_image is not bound
            /\ crashed' = TRUE
            /\ pc' = "done"
            /\ UNCHANGED <<shown, reported, stopped>>
       [] fn # "call_3d" /\ ret.kind = "image" ->
            /\ shown' = shown + 1
            /\ pc' = "generic"
            /\ UNCHANGED <<reported, stopped, crashed>>
       [] OTHER ->
            \* "Failed to generate ...", st.stop()
            /\ reported' = reported + 1
            /\ stopped' = TRUE
            /\ pc' = "done"
            /\ UNCHANGED <<shown, crashed>>
  /\ UNCHANGED <<presetVars, promptVars, decodeVars, auxVars, Config, fn, caller, model, realCreative, attempt, trace, ret,
                 backend_url>>

\* the multipart POST to backend_url that follows the if/elif chain
GenericPost ==
  /\ pc = "generic"
  /\ IF backend_url = "unbound"
     THEN \* NameError, caught by `except Exception`: "Failed to generate painting"
          /\ reported' = reported + 1
          /\ UNCHANGED <<trace, shown, stopped>>
     ELSE \E o \in Outcomes :
            /\ trace' = Append(trace, Call(IF backend_url = "ngrok"
                                           THEN "generic_ngrok"
                                           ELSE "generic_localhost", o))
            /\ CASE Raises(o) ->
                      \* "Network error"
                      reported' = reported + 1 /\ UNCHANGED <<shown, stopped>>
                 [] RawImageOk(o) ->
                      shown' = shown + 1 /\ UNCHANGED <<reported, stopped>>
                 [] Status200(o) ->
                      \* "Failed to decode image", st.stop()
                      /\ reported' = reported + 1
                      /\ stopped' = TRUE
                      /\ UNCHANGED shown
                 [] OTHER -> UNCHANGED <<shown, reported, stopped>>
  /\ pc' = "done"
  /\ UNCHANGED <<presetVars, promptVars, decodeVars, auxVars, Config, fn, caller, model, realCreative, attempt, ret,
                 backend_url, crashed>>

Next ==
  \/ GenerateClick
  \/ DirectCall
  \/ RemoteEntry
  \/ RemoteAttempt
  \/ LocalFallback
  \/ HfEntry
  \/ HfHttp
  \/ HfGradio
  \/ TdStage1
  \/ TdStage2
  \/ TdLocal
  \/ EnhEntry
  \/ EnhAttempt
  \/ InlineAttempt
  \/ HandlerResult
  \/ GenericPost

Spec == Init /\ [][Next]_vars

(***************************************************************************)
(* The resolver on its own: every input of the bounded sets, one call.     *)
(***************************************************************************)
PresetInit ==
  /\ urlPlaceholder = FALSE
  /\ hfToken = TRUE
  /\ DispatchIdle
  /\ p_pc = "idle"
  /\ art_style \in Styles
  /\ sketch_type \in SketchTypes
  /\ preset_choice \in TierStrings
  /\ resolved = NoResult
  /\ PromptIdle
  /\ DecodeIdle
  /\ AuxIdle

Resolve ==
  /\ p_pc = "idle"
  /\ resolved' = get_parameters_from_preset(art_style, sketch_type, preset_choice)
  /\ p_pc' = "resolved"
  /\ UNCHANGED <<Config, pc, fn, caller, model, realCreative, attempt, trace,
                 ret, backend_url, Screen, art_style, sketch_type,
                 preset_choice, promptVars, decodeVars, auxVars>>

PresetNext == Resolve

PresetSpec == PresetInit /\ [][PresetNext]_vars

(***************************************************************************)
(* Prompt composition.  Prompts are strings; \o is Python's string         *)
(* concatenation and an f-string is the concatenation of its parts.        *)
(***************************************************************************)

\* Python `s.startswith(pre)`
StrStartsWith(s, pre) == Len(pre) <= Len(s) /\ SubSeq(s, 1, Len(pre)) = pre

\* Python `s.endswith(suf)`
StrEndsWith(s, suf) ==
  Len(suf) <= Len(s) /\ SubSeq(s, Len(s) - Len(suf) + 1, Len(s)) = suf

\* Python `sub in s` on strings
StrContains(s, sub) ==
  \E i \in 1..(Len(s) - Len(sub) + 1) : SubSeq(s, i, i + Len(sub) - 1) = sub

UpperCase == "ABCDEFGHIJKLMNOPQRSTUVWXYZ"
LowerCase == "abcdefghijklmnopqrstuvwxyz"

lower_char(c) ==
  IF \E i \in 1..26 : SubSeq(UpperCase, i, i) = c
  THEN LET i == CHOOSE j \in 1..26 : SubSeq(UpperCase, j, j) = c
       IN  SubSeq(LowerCase, i, i)
  ELSE c

\* Python `s.lower()`: every character lowered, halves first
RECURSIVE lower(_)
lower(s) ==
  IF Len(s) = 0 THEN ""
  ELSE IF Len(s) = 1 THEN lower_char(s)
  ELSE LET h == Len(s) \div 2
       IN  lower(SubSeq(s, 1, h)) \o lower(SubSeq(s, h + 1, Len(s)))

\* any(word in s for word in words)
any_in(words, s) == \E word \in words : StrContains(s, word)

\* THEME_DESCRIPTIONS of enhanced_theme_system.py, without the description
\* texts
THEME_DESCRIPTIONS ==
  ("Realistic portrait, professional photography, natural skin, detailed features, studio background, sharp focus, beautiful" :>
     [style |-> "realistic",
      positive_prompt |-> "realistic portrait, professional photography, natural skin, detailed features, studio background, sharp focus, beautiful",
      negative_prompt |-> "cartoon, anime, illustration, painting, drawing, sketch, unrealistic, deformed"]) @@
  ("Professional headshot, natural lighting, studio background, sharp focus, high resolution, detailed facial features" :>
     [style |-> "realistic",
      positive_prompt |-> "professional headshot, natural lighting, studio background, sharp focus, high resolution, detailed facial features",
      negative_prompt |-> "cartoon, anime, illustration, painting, drawing, sketch, unrealistic, deformed"]) @@
  ("Studio photography, natural lighting, detailed face, professional camera, sharp focus, beautiful features, high quality" :>
     [style |-> "realistic",
      positive_prompt |-> "studio photography, natural lighting, detailed face, professional camera, sharp focus, beautiful features, high quality",
      negative_prompt |-> "cartoon, anime, illustration, painting, drawing, sketch, unrealistic, deformed"]) @@
  ("High fashion portrait, professional photography, natural skin texture, detailed eyes, natural hair, studio lighting, 4k quality" :>
     [style |-> "realistic",
      positive_prompt |-> "high fashion portrait, professional photography, natural skin texture, detailed eyes, natural hair, studio lighting, 4k quality",
      negative_prompt |-> "cartoon, anime, illustration, painting, drawing, sketch, unrealistic, deformed"]) @@
  ("Celebrity style portrait, professional photography, natural skin, detailed features, studio background, sharp focus, beautiful" :>
     [style |-> "realistic",
      positive_prompt |-> "celebrity style portrait, professional photography, natural skin, detailed features, studio background, sharp focus, beautiful",
      negative_prompt |-> "cartoon, anime, illustration, painting, drawing, sketch, unrealistic, deformed"]) @@
  ("Magazine cover portrait, natural lighting, detailed face, professional camera, sharp focus, beautiful features, high quality" :>
     [style |-> "realistic",
      positive_prompt |-> "magazine cover portrait, natural lighting, detailed face, professional camera, sharp focus, beautiful features, high quality",
      negative_prompt |-> "cartoon, anime, illustration, painting, drawing, sketch, unrealistic, deformed"]) @@
  ("Artistic portrait, professional photography, natural skin texture, detailed eyes, natural hair, studio lighting, 4k quality" :>
     [style |-> "realistic",
      positive_prompt |-> "artistic portrait, professional photography, natural skin texture, detailed eyes, natural hair, studio lighting, 4k quality",
      negative_prompt |-> "cartoon, anime, illustration, painting, drawing, sketch, unrealistic, deformed"]) @@
  ("Cinematic portrait, natural lighting, detailed face, professional camera, sharp focus, beautiful features, high quality" :>
     [style |-> "realistic",
      positive_prompt |-> "cinematic portrait, natural lighting, detailed face, professional camera, sharp focus, beautiful features, high quality",
      negative_prompt |-> "cartoon, anime, illustration, painting, drawing, sketch, unrealistic, deformed"]) @@
  ("Vintage portrait, professional photography, natural skin, detailed features, studio background, sharp focus, beautiful" :>
     [style |-> "realistic",
      positive_prompt |-> "vintage portrait, professional photography, natural skin, detailed features, studio background, sharp focus, beautiful",
      negative_prompt |-> "cartoon, anime, illustration, painting, drawing, sketch, unrealistic, deformed"]) @@
  ("Modern portrait, natural lighting, detailed face, professional camera, sharp focus, beautiful features, high quality" :>
     [style |-> "realistic",
      positive_prompt |-> "modern portrait, natural lighting, detailed face, professional camera, sharp focus, beautiful features, high quality",
      negative_prompt |-> "cartoon, anime, illustration, painting, drawing, sketch, unrealistic, deformed"]) @@
  ("Van Gogh style" :>
     [style |-> "cartoon",
      positive_prompt |-> "Van Gogh style painting, post-impressionist, bold colors, expressive brushstrokes, artistic",
      negative_prompt |-> "realistic, photograph, modern, clean, smooth"]) @@
  ("Cartoon version" :>
     [style |-> "cartoon",
      positive_prompt |-> "cartoon style, bold outlines, vibrant colors, animated, stylized",
      negative_prompt |-> "realistic, photograph, detailed, natural"]) @@
  ("Turn into a cyborg" :>
     [style |-> "cartoon",
      positive_prompt |-> "cyborg, sci-fi, mechanical parts, futuristic, robotic, metallic",
      negative_prompt |-> "realistic, natural, organic, human"]) @@
  ("Watercolor painting" :>
     [style |-> "cartoon",
      positive_prompt |-> "watercolor painting, soft colors, flowing, artistic, painterly",
      negative_prompt |-> "realistic, photograph, sharp, digital"]) @@
  ("Anime style" :>
     [style |-> "cartoon",
      positive_prompt |-> "anime style, Japanese animation, large eyes, stylized features, vibrant colors",
      negative_prompt |-> "realistic, photograph, natural, detailed"]) @@
  ("Futuristic robot" :>
     [style |-> "cartoon",
      positive_prompt |-> "futuristic robot, metallic, advanced technology, sci-fi, mechanical",
      negative_prompt |-> "realistic, human, natural, organic"]) @@
  ("Old photo" :>
     [style |-> "realistic",
      positive_prompt |-> "vintage photograph, sepia tones, aged, nostalgic, classic",
      negative_prompt |-> "modern, digital, colorful, sharp"]) @@
  ("Pop art" :>
     [style |-> "cartoon",
      positive_prompt |-> "pop art style, bold colors, graphic design, Andy Warhol inspired",
      negative_prompt |-> "realistic, natural, subtle, muted"]) @@
  ("Impressionist painting" :>
     [style |-> "cartoon",
      positive_prompt |-> "impressionist painting, visible brushstrokes, light effects, artistic",
      negative_prompt |-> "realistic, photograph, sharp, detailed"]) @@
  ("Disney animation style" :>
     [style |-> "cartoon",
      positive_prompt |-> "Disney animation style, charming, magical, colorful, family-friendly",
      negative_prompt |-> "realistic, dark, mature, realistic"]) @@
  ("Studio Ghibli style" :>
     [style |-> "cartoon",
      positive_prompt |-> "Studio Ghibli style, magical atmosphere, detailed backgrounds, anime",
      negative_prompt |-> "realistic, photograph, modern, dark"]) @@
  ("Pixar 3D animation" :>
     [style |-> "cartoon",
      positive_prompt |-> "Pixar 3D animation, detailed textures, expressive features, colorful",
      negative_prompt |-> "realistic, photograph, 2D, flat"]) @@
  ("Realistic humanoid" :>
     [style |-> "realistic",
      positive_prompt |-> "realistic humanoid robot, detailed mechanical features, advanced technology",
      negative_prompt |-> "cartoon, anime, stylized, simple"]) @@
  ("Cartoon Network style" :>
     [style |-> "cartoon",
      positive_prompt |-> "Cartoon Network style, bold colors, exaggerated features, animated",
      negative_prompt |-> "realistic, natural, subtle, detailed"]) @@
  ("Marvel comic style" :>
     [style |-> "cartoon",
      positive_prompt |-> "Marvel comic style, dynamic poses, bold colors, superhero",
      negative_prompt |-> "realistic, photograph, natural, subtle"]) @@
  ("DC Comics style" :>
     [style |-> "cartoon",
      positive_prompt |-> "DC Comics style, dramatic lighting, comic book, superhero",
      negative_prompt |-> "realistic, photograph, natural, subtle"]) @@
  ("Japanese manga" :>
     [style |-> "cartoon",
      positive_prompt |-> "Japanese manga style, black and white, distinctive artwork, anime",
      negative_prompt |-> "realistic, photograph, colorful, natural"]) @@
  ("European oil painting" :>
     [style |-> "realistic",
      positive_prompt |-> "European oil painting, classical, rich textures, artistic, masterwork",
      negative_prompt |-> "cartoon, anime, modern, digital"]) @@
  ("Digital art" :>
     [style |-> "cartoon",
      positive_prompt |-> "digital art, clean lines, vibrant colors, modern, stylized",
      negative_prompt |-> "realistic, photograph, traditional, natural"]) @@
  ("Steampunk style" :>
     [style |-> "cartoon",
      positive_prompt |-> "steampunk style, Victorian-era, mechanical elements, brass, gears",
      negative_prompt |-> "realistic, modern, clean, simple"]) @@
  ("Cyberpunk aesthetic" :>
     [style |-> "cartoon",
      positive_prompt |-> "cyberpunk aesthetic, neon lights, futuristic, urban, dystopian",
      negative_prompt |-> "realistic, natural, rural, peaceful"]) @@
  ("Fantasy art" :>
     [style |-> "cartoon",
      positive_prompt |-> "fantasy art, magical elements, mystical atmosphere, enchanted",
      negative_prompt |-> "realistic, modern, mundane, ordinary"]) @@
  ("Sci-fi concept art" :>
     [style |-> "cartoon",
      positive_prompt |-> "sci-fi concept art, futuristic technology, alien worlds, space",
      negative_prompt |-> "realistic, historical, natural, Earth"]) @@
  ("Horror movie style" :>
     [style |-> "realistic",
      positive_prompt |-> "horror movie style, dark atmosphere, dramatic lighting, suspenseful",
      negative_prompt |-> "bright, cheerful, colorful, safe"]) @@
  ("Romantic painting" :>
     [style |-> "realistic",
      positive_prompt |-> "romantic painting, emotional, dramatic, artistic, classical",
      negative_prompt |-> "cartoon, anime, modern, digital"])

\* THEME_CATEGORIES of app.py: the themes the sidebar offers per subject type
THEME_CATEGORIES ==
  ("Human" :>
     {"Realistic portrait, professional photography, natural skin, detailed features, studio background, sharp focus, beautiful",
      "Professional headshot, natural lighting, studio background, sharp focus, high resolution, detailed facial features",
      "Studio photography, natural lighting, detailed face, professional camera, sharp focus, beautiful features, high quality",
      "High fashion portrait, professional photography, natural skin texture, detailed eyes, natural hair, studio lighting, 4k quality",
      "Celebrity style portrait, professional photography, natural skin, detailed features, studio background, sharp focus, beautiful",
      "Magazine cover portrait, natural lighting, detailed face, professional camera, sharp focus, beautiful features, high quality",
      "Artistic portrait, professional photography, natural skin texture, detailed eyes, natural hair, studio lighting, 4k quality",
      "Cinematic portrait, natural lighting, detailed face, professional camera, sharp focus, beautiful features, high quality",
      "Vintage portrait, professional photography, natural skin, detailed features, studio background, sharp focus, beautiful",
      "Modern portrait, natural lighting, detailed face, professional camera, sharp focus, beautiful features, high quality",
      "Van Gogh style",
      "Cartoon version",
      "Turn into a cyborg",
      "Watercolor painting",
      "Anime style",
      "Futuristic robot",
      "Old photo",
      "Pop art",
      "Impressionist painting",
      "Disney animation style",
      "Studio Ghibli style",
      "Pixar 3D animation",
      "Realistic humanoid",
      "Cartoon Network style",
      "Marvel comic style",
      "DC Comics style",
      "Japanese manga",
      "European oil painting",
      "Digital art",
      "Steampunk style",
      "Cyberpunk aesthetic",
      "Fantasy art",
      "Sci-fi concept art",
      "Horror movie style",
      "Romantic painting",
      "FRIENDS sitcom style",
      "Twilight Saga cinematic",
      "Stranger Things retro horror",
      "Seinfeld 90s sitcom",
      "Game of Thrones fantasy",
      "Breaking Bad drama",
      "The Office mockumentary",
      "Star Wars sci-fi",
      "Marvel superhero",
      "Disney princess",
      "Harry Potter magic",
      "Lord of the Rings epic",
      "Rick and Morty surreal",
      "Simpsons cartoon",
      "SpongeBob underwater",
      "Avatar: The Last Airbender",
      "Narcos crime drama",
      "Peaky Blinders vintage",
      "Squid Game suspense",
      "DALL-E surrealism",
      "Midjourney photorealism",
      "Stable Diffusion fantasy",
      "DreamBooth custom style",
      "Deep Dream psychedelic",
      "RunwayML cinematic",
      "NightCafe creative",
      "Artbreeder blend"}) @@
  ("Architecture" :>
     {"Modern skyscraper",
      "Classic European landmark",
      "Futuristic cityscape",
      "Ancient temple",
      "Famous bridge",
      "Interior design",
      "Street scene",
      "Nature landscape"}) @@
  ("Object" :>
     {"Furniture design",
      "Product rendering",
      "Vehicle concept art",
      "Gadget prototype",
      "Fashion design sketch",
      "Jewelry design",
      "Sports equipment",
      "Musical instrument",
      "Book cover art",
      "Poster design",
      "Still life painting",
      "Food photography",
      "Animal illustration"}) @@
  ("Animal" :>
     {"Animal illustration",
      "Nature landscape",
      "Cartoon version",
      "Anime style",
      "Pixar 3D animation",
      "Studio Ghibli style",
      "Disney animation style",
      "Realistic humanoid"}) @@
  ("Other" :>
     {"DALL-E surrealism",
      "Midjourney photorealism",
      "Stable Diffusion fantasy",
      "DreamBooth custom style",
      "Deep Dream psychedelic",
      "RunwayML cinematic",
      "NightCafe creative",
      "Artbreeder blend"})

\* SUBJECT_TYPES = list(THEME_CATEGORIES.keys())
SUBJECT_TYPES == DOMAIN THEME_CATEGORIES

\* every theme of the sidebar and of THEME_DESCRIPTIONS
AllThemes ==
  DOMAIN THEME_DESCRIPTIONS \cup UNION {THEME_CATEGORIES[c] : c \in SUBJECT_TYPES}

\* the fallback get_theme_info of app.py: a theme without a description has
\* no negative fragment at all
get_theme_info_fallback(theme_name) ==
  IF theme_name \in DOMAIN THEME_DESCRIPTIONS
  THEN THEME_DESCRIPTIONS[theme_name]
  ELSE [style |-> "realistic",
        positive_prompt |-> theme_name,
        negative_prompt |-> ""]

\* the table is never consulted
get_theme_info_noTable(theme_name) ==
  [style |-> "realistic",
   positive_prompt |-> theme_name,
   negative_prompt |->
     "deformed, extra limbs, multiple faces, mutated hands, blurry, out of focus, low quality"]

\* get_theme_info(theme_name), without the description text
get_theme_info(theme_name) ==
  IF theme_name \in DOMAIN THEME_DESCRIPTIONS
  THEN THEME_DESCRIPTIONS[theme_name]
  ELSE [style |-> "realistic",
        positive_prompt |-> theme_name,
        negative_prompt |->
          "deformed, extra limbs, multiple faces, mutated hands, blurry, out of focus, low quality"]

\* the if/else tree of get_enhanced_prompts_for_theme: one f-string pair per
\* (free text given, sketch type, style of the theme)
ThemeTemplates(ti, s, up) ==
  IF up # ""
  THEN
    IF s = "face"
    THEN
      IF ti.style = "realistic"
      THEN
        [enhanced_prompt |->
           up \o ", realistic portrait of one person, " \o ti.positive_prompt \o ", detailed facial features, proper anatomy, single face",
         enhanced_negative |->
           ti.negative_prompt \o ", deformed, extra limbs, multiple faces, mutated hands, blurry, out of focus, low quality, glitch, split face, extra heads, extra bodies, anatomical error"]
      ELSE
        [enhanced_prompt |->
           up \o ", anime style portrait, " \o ti.positive_prompt \o ", stylized features, clean lines, detailed illustration, single face",
         enhanced_negative |->
           ti.negative_prompt \o ", deformed, extra limbs, multiple faces, mutated hands, blurry, out of focus, low quality, glitch, split face, extra heads, extra bodies, anatomical error, realistic, photograph"]
    ELSE
      IF ti.style = "realistic"
      THEN
        [enhanced_prompt |->
           up \o ", realistic full body portrait of one person, " \o ti.positive_prompt \o ", proper anatomy, single figure, natural pose",
         enhanced_negative |->
           ti.negative_prompt \o ", deformed, extra limbs, multiple faces, mutated hands, blurry, out of focus, low quality, glitch, split face, extra heads, extra bodies, anatomical error, multiple people"]
      ELSE
        [enhanced_prompt |->
           up \o ", anime style full body portrait, " \o ti.positive_prompt \o ", stylized features, clean lines, detailed illustration, single figure, dynamic pose",
         enhanced_negative |->
           ti.negative_prompt \o ", deformed, extra limbs, multiple faces, mutated hands, blurry, out of focus, low quality, glitch, split face, extra heads, extra bodies, anatomical error, multiple people, realistic, photograph"]
  ELSE
    IF s = "face"
    THEN
      IF ti.style = "realistic"
      THEN
        [enhanced_prompt |->
           "realistic portrait of one person, " \o ti.positive_prompt \o ", detailed facial features, proper anatomy, single face",
         enhanced_negative |->
           ti.negative_prompt \o ", deformed, extra limbs, multiple faces, mutated hands, blurry, out of focus, low quality, glitch, split face, extra heads, extra bodies, anatomical error"]
      ELSE
        [enhanced_prompt |->
           "anime style portrait, " \o ti.positive_prompt \o ", stylized features, clean lines, detailed illustration, single face",
         enhanced_negative |->
           ti.negative_prompt \o ", deformed, extra limbs, multiple faces, mutated hands, blurry, out of focus, low quality, glitch, split face, extra heads, extra bodies, anatomical error, realistic, photograph"]
    ELSE
      IF ti.style = "realistic"
      THEN
        [enhanced_prompt |->
           "realistic full body portrait of one person, " \o ti.positive_prompt \o ", proper anatomy, single figure, natural pose",
         enhanced_negative |->
           ti.negative_prompt \o ", deformed, extra limbs, multiple faces, mutated hands, blurry, out of focus, low quality, glitch, split face, extra heads, extra bodies, anatomical error, multiple people"]
      ELSE
        [enhanced_prompt |->
           "anime style full body portrait, " \o ti.positive_prompt \o ", stylized features, clean lines, detailed illustration, single figure, dynamic pose",
         enhanced_negative |->
           ti.negative_prompt \o ", deformed, extra limbs, multiple faces, mutated hands, blurry, out of focus, low quality, glitch, split face, extra heads, extra bodies, anatomical error, multiple people, realistic, photograph"]

\* get_enhanced_prompts_for_theme on a theme_info that is already looked up
PromptsForThemeInfo(ti, s, up) ==
  LET t == ThemeTemplates(ti, s, up)
  IN  [enhanced_prompt |-> t.enhanced_prompt,
       enhanced_negative |-> t.enhanced_negative,
       style |-> ti.style]

\* get_enhanced_prompts_for_theme(theme_name, sketch_type, user_prompt)
get_enhanced_prompts_for_theme(theme_name, s, up) ==
  PromptsForThemeInfo(get_theme_info(theme_name), s, up)

\* call_enhanced_controlnet_api, "ENHANCED PROMPT ENGINEERING FOR DIFFERENT
\* STYLES"
EnhancedTemplates(p, np, s, a) ==
  IF a = "realistic"
  THEN
    IF s = "face"
    THEN
      [enhanced_prompt |->
         "realistic photographic portrait, natural skin texture, professional studio lighting, shallow depth of field, sharp focus, single person, detailed eyes, natural hair, smooth facial geometry, no outline overlay, " \o p,
       enhanced_negative |->
         (IF np = "" THEN "cartoon, anime, illustration, drawing, painting, 3d render, cgi, doll-like, plastic skin, overprocessed, smooth flat shading, line overlay, heavy outlines, deformed, extra limbs, bad anatomy, multiple faces, blurry, low quality" ELSE "cartoon, anime, illustration, drawing, painting, 3d render, cgi, doll-like, plastic skin, overprocessed, smooth flat shading, line overlay, heavy outlines, deformed, extra limbs, bad anatomy, multiple faces, blurry, low quality, " \o np)]
    ELSE
      [enhanced_prompt |->
         p \o ", realistic full body photo, professional photography, studio or clean backdrop, correct human anatomy, natural pose, single person, detailed clothing folds, smooth body geometry, no outline overlay",
       enhanced_negative |->
         (IF np = "" THEN "cartoon, anime, illustration, drawing, painting, 3d render, cgi, doll-like, plastic skin, overprocessed, smooth flat shading, line overlay, heavy outlines, deformed, extra limbs, bad anatomy, multiple people, blurry, low quality" ELSE "cartoon, anime, illustration, drawing, painting, 3d render, cgi, doll-like, plastic skin, overprocessed, smooth flat shading, line overlay, heavy outlines, deformed, extra limbs, bad anatomy, multiple people, blurry, low quality, " \o np)]
  ELSE
    IF a = "ultra_realistic"
    THEN
      IF s = "face"
      THEN
        [enhanced_prompt |->
           "photorealistic portrait, DSLR photography, natural skin texture with pores, detailed facial features, professional studio lighting, sharp focus, beautiful, proper anatomy, ultra high resolution, 8k quality, HDR, bokeh, natural expression, realistic hair strands, detailed eyes and eyebrows, natural skin tone, single person, single face, no group, no crowd, " \o p,
         enhanced_negative |->
           (IF np = "" THEN "deformed, extra limbs, multiple faces, multiple people, mutated hands, fused fingers, extra fingers, missing fingers, distorted hands, bad anatomy, blurry, out of focus, low quality, glitch, split face, extra heads, extra bodies, anatomical error, inappropriate clothing, revealing, nude, naked, cartoon, anime, illustration, painting, drawing, sketch, unrealistic, artificial, digital art, 3d render, CGI, stylized, animated, cell shaded, flat colors, simple shading, exaggerated features, doll-like, toy-like, plastic, artificial skin, smooth skin, perfect skin, airbrushed, retouched, filtered" ELSE "deformed, extra limbs, multiple faces, multiple people, mutated hands, fused fingers, extra fingers, missing fingers, distorted hands, bad anatomy, blurry, out of focus, low quality, glitch, split face, extra heads, extra bodies, anatomical error, inappropriate clothing, revealing, nude, naked, cartoon, anime, illustration, painting, drawing, sketch, unrealistic, artificial, digital art, 3d render, CGI, stylized, animated, cell shaded, flat colors, simple shading, exaggerated features, doll-like, toy-like, plastic, artificial skin, smooth skin, perfect skin, airbrushed, retouched, filtered, " \o np)]
      ELSE
        [enhanced_prompt |->
           p \o ", photorealistic full body portrait, DSLR photography, natural skin texture with pores, detailed facial features, wearing casual clothing, decent attire, appropriate dress, proper anatomy, single figure, natural pose, ultra high resolution, 8k quality, HDR, bokeh, natural expression, realistic hair strands, detailed eyes and eyebrows, natural skin tone, single person, no group, no crowd",
         enhanced_negative |->
           (IF np = "" THEN "deformed, extra limbs, multiple faces, multiple people, mutated hands, fused fingers, extra fingers, missing fingers, distorted hands, bad anatomy, blurry, out of focus, low quality, glitch, split face, extra heads, extra bodies, anatomical error, inappropriate clothing, revealing, nude, naked, cartoon, anime, illustration, painting, drawing, sketch, unrealistic, artificial, digital art, 3d render, CGI, stylized, animated, cell shaded, flat colors, simple shading, exaggerated features, doll-like, toy-like, plastic, artificial skin, smooth skin, perfect skin, airbrushed, retouched, filtered" ELSE "deformed, extra limbs, multiple faces, multiple people, mutated hands, fused fingers, extra fingers, missing fingers, distorted hands, bad anatomy, blurry, out of focus, low quality, glitch, split face, extra heads, extra bodies, anatomical error, inappropriate clothing, revealing, nude, naked, cartoon, anime, illustration, painting, drawing, sketch, unrealistic, artificial, digital art, 3d render, CGI, stylized, animated, cell shaded, flat colors, simple shading, exaggerated features, doll-like, toy-like, plastic, artificial skin, smooth skin, perfect skin, airbrushed, retouched, filtered, " \o np)]
    ELSE
      IF s = "face"
      THEN
        [enhanced_prompt |->
           "anime style portrait, vibrant colors, stylized features, clean lines, detailed illustration, single face, " \o p,
         enhanced_negative |->
           (IF np = "" THEN "deformed, extra limbs, multiple faces, mutated hands, blurry, out of focus, low quality, glitch, split face, extra heads, extra bodies, anatomical error, realistic, photograph" ELSE "deformed, extra limbs, multiple faces, mutated hands, blurry, out of focus, low quality, glitch, split face, extra heads, extra bodies, anatomical error, realistic, photograph, " \o np)]
      ELSE
        [enhanced_prompt |->
           "anime style full body portrait, vibrant colors, stylized features, clean lines, detailed illustration, single figure, dynamic pose, " \o p,
         enhanced_negative |->
           (IF np = "" THEN "deformed, extra limbs, multiple faces, mutated hands, blurry, out of focus, low quality, glitch, split face, extra heads, extra bodies, anatomical error, multiple people, realistic, photograph" ELSE "deformed, extra limbs, multiple faces, mutated hands, blurry, out of focus, low quality, glitch, split face, extra heads, extra bodies, anatomical error, multiple people, realistic, photograph, " \o np)]

\* branch "SDXL + ControlNet (Kaggle)": "REGENERATE PROMPT to match the
\* selected style"
KaggleOverride(p, np, s, a) ==
  IF a = "realistic"
  THEN
    IF s = "face"
    THEN
      [enhanced_prompt |->
         (IF p # "" THEN p ELSE "portrait") \o ", realistic photographic portrait, natural skin texture, professional studio lighting, shallow depth of field, sharp focus, single person, detailed eyes, natural hair, smooth facial geometry, no outline overlay",
       enhanced_negative |->
         "cartoon, anime, illustration, drawing, painting, 3d render, cgi, doll-like, plastic skin, overprocessed, smooth flat shading, line overlay, heavy outlines, deformed, extra limbs, bad anatomy, multiple faces, blurry, low quality"]
    ELSE
      [enhanced_prompt |->
         (IF p # "" THEN p ELSE "full body portrait") \o ", realistic full body photo, professional photography, studio or clean backdrop, correct human anatomy, natural pose, single person, detailed clothing folds, smooth body geometry, no outline overlay",
       enhanced_negative |->
         "cartoon, anime, illustration, drawing, painting, 3d render, cgi, doll-like, plastic skin, overprocessed, smooth flat shading, line overlay, heavy outlines, deformed, extra limbs, bad anatomy, multiple people, blurry, low quality"]
  ELSE
    IF a = "cartoon"
    THEN
      IF s = "face"
      THEN
        [enhanced_prompt |->
           (IF p # "" THEN p ELSE "portrait") \o ", anime style portrait, vibrant colors, stylized features, clean lines, detailed illustration, single face",
         enhanced_negative |->
           "deformed, extra limbs, multiple faces, mutated hands, blurry, out of focus, low quality, glitch, split face, extra heads, extra bodies, anatomical error, realistic, photograph"]
      ELSE
        [enhanced_prompt |->
           (IF p # "" THEN p ELSE "full body portrait") \o ", anime style full body portrait, vibrant colors, stylized features, clean lines, detailed illustration, single figure, dynamic pose",
         enhanced_negative |->
           "deformed, extra limbs, multiple faces, mutated hands, blurry, out of focus, low quality, glitch, split face, extra heads, extra bodies, anatomical error, multiple people, realistic, photograph"]
    ELSE
      IF s = "face"
      THEN
        [enhanced_prompt |->
           (IF p # "" THEN p ELSE "portrait") \o ", photorealistic portrait, DSLR photography, natural skin texture with pores, detailed facial features, professional studio lighting, sharp focus, beautiful, proper anatomy, ultra high resolution, 8k quality, HDR, bokeh, natural expression, realistic hair strands, detailed eyes and eyebrows, natural skin tone, single person, single face, no group, no crowd",
         enhanced_negative |->
           (IF np = "" THEN "deformed, extra limbs, multiple faces, multiple people, mutated hands, fused fingers, extra fingers, missing fingers, distorted hands, bad anatomy, blurry, out of focus, low quality, glitch, split face, extra heads, extra bodies, anatomical error, inappropriate clothing, revealing, nude, naked, cartoon, anime, illustration, painting, drawing, sketch, unrealistic, artificial, digital art, 3d render, CGI, stylized, animated, cell shaded, flat colors, simple shading, exaggerated features, doll-like, toy-like, plastic, artificial skin, smooth skin, perfect skin, airbrushed, retouched, filtered" ELSE "deformed, extra limbs, multiple faces, multiple people, mutated hands, fused fingers, extra fingers, missing fingers, distorted hands, bad anatomy, blurry, out of focus, low quality, glitch, split face, extra heads, extra bodies, anatomical error, inappropriate clothing, revealing, nude, naked, cartoon, anime, illustration, painting, drawing, sketch, unrealistic, artificial, digital art, 3d render, CGI, stylized, animated, cell shaded, flat colors, simple shading, exaggerated features, doll-like, toy-like, plastic, artificial skin, smooth skin, perfect skin, airbrushed, retouched, filtered, " \o np)]
      ELSE
        [enhanced_prompt |->
           (IF p # "" THEN p ELSE "full body portrait") \o ", photorealistic full body portrait, DSLR photography, natural skin texture with pores, detailed facial features, wearing casual clothing, decent attire, appropriate dress, proper anatomy, single figure, natural pose, ultra high resolution, 8k quality, HDR, bokeh, natural expression, realistic hair strands, detailed eyes and eyebrows, natural skin tone, single person, no group, no crowd",
         enhanced_negative |->
           (IF np = "" THEN "deformed, extra limbs, multiple faces, multiple people, mutated hands, fused fingers, extra fingers, missing fingers, distorted hands, bad anatomy, blurry, out of focus, low quality, glitch, split face, extra heads, extra bodies, anatomical error, inappropriate clothing, revealing, nude, naked, cartoon, anime, illustration, painting, drawing, sketch, unrealistic, artificial, digital art, 3d render, CGI, stylized, animated, cell shaded, flat colors, simple shading, exaggerated features, doll-like, toy-like, plastic, artificial skin, smooth skin, perfect skin, airbrushed, retouched, filtered" ELSE "deformed, extra limbs, multiple faces, multiple people, mutated hands, fused fingers, extra fingers, missing fingers, distorted hands, bad anatomy, blurry, out of focus, low quality, glitch, split face, extra heads, extra bodies, anatomical error, inappropriate clothing, revealing, nude, naked, cartoon, anime, illustration, painting, drawing, sketch, unrealistic, artificial, digital art, 3d render, CGI, stylized, animated, cell shaded, flat colors, simple shading, exaggerated features, doll-like, toy-like, plastic, artificial skin, smooth skin, perfect skin, airbrushed, retouched, filtered, " \o np)]

\* branch "SDXL + ControlNet Official (Kaggle)": "REGENERATE PROMPT to match
\* the selected style"
OfficialOverride(p, np, s, a) ==
  IF a = "realistic"
  THEN
    IF s = "face"
    THEN
      [enhanced_prompt |->
         (IF p # "" THEN p ELSE "portrait") \o ", realistic photographic portrait, natural skin texture, professional studio lighting, shallow depth of field, sharp focus, single person, detailed eyes, natural hair, smooth facial geometry, no outline overlay",
       enhanced_negative |->
         "cartoon, anime, illustration, drawing, painting, 3d render, cgi, doll-like, plastic skin, overprocessed, smooth flat shading, line overlay, heavy outlines, deformed, extra limbs, bad anatomy, multiple faces, blurry, low quality"]
    ELSE
      [enhanced_prompt |->
         (IF p # "" THEN p ELSE "full body portrait") \o ", realistic full body photo, professional photography, studio or clean backdrop, correct human anatomy, natural pose, single person, detailed clothing folds, smooth body geometry, no outline overlay",
       enhanced_negative |->
         "cartoon, anime, illustration, drawing, painting, 3d render, cgi, doll-like, plastic skin, overprocessed, smooth flat shading, line overlay, heavy outlines, deformed, extra limbs, bad anatomy, multiple people, blurry, low quality"]
  ELSE
    IF a = "cartoon"
    THEN
      IF s = "face"
      THEN
        [enhanced_prompt |->
           "anime style portrait, vibrant colors, stylized features, clean lines, detailed illustration, single face, " \o (IF p # "" THEN p ELSE "portrait"),
         enhanced_negative |->
           "deformed, extra limbs, multiple faces, mutated hands, blurry, out of focus, low quality, glitch, split face, extra heads, extra bodies, anatomical error, realistic, photograph"]
      ELSE
        [enhanced_prompt |->
           "anime style full body portrait, vibrant colors, stylized features, clean lines, detailed illustration, single figure, dynamic pose, " \o (IF p # "" THEN p ELSE "full body portrait"),
         enhanced_negative |->
           "deformed, extra limbs, multiple faces, mutated hands, blurry, out of focus, low quality, glitch, split face, extra heads, extra bodies, anatomical error, multiple people, realistic, photograph"]
    ELSE
      IF s = "face"
      THEN
        [enhanced_prompt |->
           "photorealistic portrait, DSLR photography, natural skin texture with pores, detailed facial features, professional studio lighting, sharp focus, beautiful, proper anatomy, ultra high resolution, 8k quality, HDR, bokeh, natural expression, realistic hair strands, detailed eyes and eyebrows, natural skin tone, single person, single face, no group, no crowd, " \o (IF p # "" THEN p ELSE "portrait"),
         enhanced_negative |->
           (IF np = "" THEN "deformed, extra limbs, multiple faces, multiple people, mutated hands, fused fingers, extra fingers, missing fingers, distorted hands, bad anatomy, blurry, out of focus, low quality, glitch, split face, extra heads, extra bodies, anatomical error, inappropriate clothing, revealing, nude, naked, cartoon, anime, illustration, painting, drawing, sketch, unrealistic, artificial, digital art, 3d render, CGI, stylized, animated, cell shaded, flat colors, simple shading, exaggerated features, doll-like, toy-like, plastic, artificial skin, smooth skin, perfect skin, airbrushed, retouched, filtered" ELSE "deformed, extra limbs, multiple faces, multiple people, mutated hands, fused fingers, extra fingers, missing fingers, distorted hands, bad anatomy, blurry, out of focus, low quality, glitch, split face, extra heads, extra bodies, anatomical error, inappropriate clothing, revealing, nude, naked, cartoon, anime, illustration, painting, drawing, sketch, unrealistic, artificial, digital art, 3d render, CGI, stylized, animated, cell shaded, flat colors, simple shading, exaggerated features, doll-like, toy-like, plastic, artificial skin, smooth skin, perfect skin, airbrushed, retouched, filtered, " \o np)]
      ELSE
        [enhanced_prompt |->
           (IF p # "" THEN p ELSE "full body portrait") \o ", photorealistic full body portrait, DSLR photography, natural skin texture with pores, detailed facial features, wearing casual clothing, decent attire, appropriate dress, proper anatomy, single figure, natural pose, ultra high resolution, 8k quality, HDR, bokeh, natural expression, realistic hair strands, detailed eyes and eyebrows, natural skin tone, single person, no group, no crowd, " \o (IF p # "" THEN p ELSE "full body portrait"),
         enhanced_negative |->
           (IF np = "" THEN "deformed, extra limbs, multiple faces, multiple people, mutated hands, fused fingers, extra fingers, missing fingers, distorted hands, bad anatomy, blurry, out of focus, low quality, glitch, split face, extra heads, extra bodies, anatomical error, inappropriate clothing, revealing, nude, naked, cartoon, anime, illustration, painting, drawing, sketch, unrealistic, artificial, digital art, 3d render, CGI, stylized, animated, cell shaded, flat colors, simple shading, exaggerated features, doll-like, toy-like, plastic, artificial skin, smooth skin, perfect skin, airbrushed, retouched, filtered" ELSE "deformed, extra limbs, multiple faces, multiple people, mutated hands, fused fingers, extra fingers, missing fingers, distorted hands, bad anatomy, blurry, out of focus, low quality, glitch, split face, extra heads, extra bodies, anatomical error, inappropriate clothing, revealing, nude, naked, cartoon, anime, illustration, painting, drawing, sketch, unrealistic, artificial, digital art, 3d render, CGI, stylized, animated, cell shaded, flat colors, simple shading, exaggerated features, doll-like, toy-like, plastic, artificial skin, smooth skin, perfect skin, airbrushed, retouched, filtered, " \o np)]

\* base_negative of the Generate handler
base_negative ==
  "deformed, distorted, disfigured, bad anatomy, bad proportions, extra limbs, missing limbs, floating limbs, mutated hands and fingers, out of focus, long neck, long body, mutated hands and fingers, missing arms, missing legs, extra arms, extra legs, malformed limbs, mutated limbs, double image, blurred, ugly, disgusting, amputation, extra limbs, extra arms, extra legs, disfigured, gross proportions, malformed, mutated, anatomical, anatomical error, goofy, unrealistic, cartoon, anime, painting, drawing, sketch, illustration, low quality, blurry, pixelated"

\* the girl/woman rule is tested before the boy/child rule
context_negative_girlFirst(p, th) ==
  LET pl == lower(p)
      tl == lower(th)
  IN  IF p # "" /\ any_in({"girl", "woman", "female", "lady"}, pl)
      THEN "man, boy, male, child, kid, young"
      ELSE IF p # "" /\ any_in({"boy", "child", "kid", "young"}, pl)
      THEN "adult, woman, female, girl, old person, elderly, mature"
      ELSE IF p # "" /\ any_in({"man", "male", "guy", "dude"}, pl)
      THEN "woman, girl, female, lady"
      ELSE IF StrContains(tl, "animal") \/ any_in({"pet", "wildlife", "creature"}, tl)
      THEN "human, person, man, woman, child, boy, girl"
      ELSE IF \/ StrContains(tl, "architecture")
              \/ StrContains(tl, "object")
              \/ any_in({"building", "furniture", "vehicle", "product"}, tl)
      THEN "human, person, man, woman, child, boy, girl"
      ELSE ""

\* the if/elif chain that sets context_negative from prompt and theme
context_negative(p, th) ==
  LET pl == lower(p)
      tl == lower(th)
  IN  IF p # "" /\ any_in({"boy", "child", "kid", "young"}, pl)
      THEN "adult, woman, female, girl, old person, elderly, mature"
      ELSE IF p # "" /\ any_in({"girl", "woman", "female", "lady"}, pl)
      THEN "man, boy, male, child, kid, young"
      ELSE IF p # "" /\ any_in({"man", "male", "guy", "dude"}, pl)
      THEN "woman, girl, female, lady"
      ELSE IF StrContains(tl, "animal") \/ any_in({"pet", "wildlife", "creature"}, tl)
      THEN "human, person, man, woman, child, boy, girl"
      ELSE IF \/ StrContains(tl, "architecture")
              \/ StrContains(tl, "object")
              \/ any_in({"building", "furniture", "vehicle", "product"}, tl)
      THEN "human, person, man, woman, child, boy, girl"
      ELSE ""

\* negative_prompt = base_negative, plus ", " + context_negative if there is one
HandlerNegative(p, th) ==
  LET c == context_negative(p, th)
  IN  IF c # "" THEN base_negative \o ", " \o c ELSE base_negative

InlineModels ==
  {"SDXL + ControlNet (Kaggle)", "SDXL + ControlNet Official (Kaggle)"}

\* the two "SDXL + ControlNet" branches up to json_data: the prompts of the
\* theme system, regenerated when the style chosen by the user differs from
\* the style stored with the theme
BranchPrompts(m, ti, s, p, ms, np) ==
  LET e == PromptsForThemeInfo(ti, s, p)
      o == IF m = "SDXL + ControlNet (Kaggle)"
           THEN KaggleOverride(p, np, s, ms)
           ELSE OfficialOverride(p, np, s, ms)
  IN  IF ms # e.style
      THEN [enhanced_prompt |-> o.enhanced_prompt,
            enhanced_negative |-> o.enhanced_negative,
            style |-> ms]
      ELSE e

\* balanced_negative of call_kaggle_sdxl_api and call_sdxl_http_api
balanced_negative ==
  "deformed, distorted, disfigured, bad anatomy, bad proportions, extra limbs, missing limbs, floating limbs, mutated hands and fingers, out of focus, long neck, long body, mutated hands and fingers, missing arms, missing legs, extra arms, extra legs, malformed limbs, mutated limbs, double image, blurred, ugly, disgusting, amputation, extra limbs, extra arms, extra legs, disfigured, gross proportions, malformed, mutated, anatomical, anatomical error, goofy, unrealistic, cartoon, anime, painting, drawing, sketch, illustration, low quality, blurry, pixelated"

\* balanced_negative of call_linoyts_approach_api
linoyts_negative ==
  "longbody, lowres, bad anatomy, bad hands, missing fingers, extra digit, fewer digits, cropped, worst quality, low quality, blurry, distorted, disfigured, multiple faces, multiple heads"

\* the custom negative prompt is dropped
FinalNegative_defaultsOnly(np, balanced) == balanced

\* final_negative = negative_prompt if negative_prompt else balanced_negative
FinalNegative(np, balanced) == IF np # "" THEN np ELSE balanced

\* the prompts in the request body of call_kaggle_sdxl_api,
\* call_sdxl_http_api and call_linoyts_approach_api
BackendPrompts(f, p, np) ==
  CASE f = "call_kaggle_sdxl_api" ->
         [enhanced_prompt |->
            "professional photography, " \o p \o ", high quality, detailed, natural lighting, sharp focus, beautiful, masterpiece, 8k, ultra detailed",
          enhanced_negative |-> FinalNegative(np, balanced_negative)]
    [] f = "call_sdxl_http_api" ->
         [enhanced_prompt |->
            "professional photography, " \o p \o ", based on sketch outline, following the sketch composition, high quality, detailed, natural lighting, sharp focus, beautiful, 8k, ultra detailed",
          enhanced_negative |-> FinalNegative(np, balanced_negative)]
    [] OTHER ->
         [enhanced_prompt |->
            "realistic human portrait, " \o p \o ", detailed face, natural proportions, studio lighting, high quality, professional photography",
          enhanced_negative |-> FinalNegative(np, linoyts_negative)]

\* the backend-calling function that the handler calls for model m
BackendOf(m) ==
  CASE m = "SDXL ControlNet (Kaggle)" -> "call_kaggle_sdxl_api"
    [] m = "SDXL ControlNet (HF)" -> "call_sdxl_http_api"
    [] OTHER -> "call_linoyts_approach_api"

\* free texts typed into the sidebar
FreeTexts ==
  {"", "a boy", "Girl with a boy", "woman in red", "old man", "red barn"}

\* custom negative prompts passed by a caller
CustomNegatives == {"", "watermark, text"}

ArtStyles == {"realistic", "cartoon", "ultra_realistic"}
SketchTypeButtons == {"face", "full_body"}

PromptModels ==
  InlineModels \cup
  {"SDXL ControlNet (Kaggle)", "SDXL ControlNet (HF)", "Linoyts Approach (Kaggle)"}

\* the slots of a template: the free text and the fragments of the theme
Slot(p) == IF p = "" THEN "" ELSE "{prompt}"
SlotInfo(ti) ==
  [style |-> ti.style, positive_prompt |-> "{theme}",
   negative_prompt |-> "{theme_negative}"]

Composed(f, m, r, t) ==
  /\ c_pc' = "composed"
  /\ c_fn' = f
  /\ c_model' = m
  /\ enhanced_prompt' = r.enhanced_prompt
  /\ enhanced_negative' = r.enhanced_negative
  /\ detected_style' = r.style
  /\ template' = t

\* a call of get_enhanced_prompts_for_theme
ThemePrompts ==
  /\ c_pc = "idle"
  /\ \E th \in AllThemes, s \in SketchTypeButtons, p \in FreeTexts :
       /\ theme' = th
       /\ c_sketch_type' = s
       /\ prompt' = p
       /\ Composed("get_enhanced_prompts_for_theme", "-",
                   get_enhanced_prompts_for_theme(th, s, p),
                   PromptsForThemeInfo(SlotInfo(get_theme_info(th)), s,
                                       Slot(p)).enhanced_prompt)
  /\ UNCHANGED <<subject_type, manual_style, negative_prompt, prev>>
  /\ UNCHANGED <<Config, pc, fn, caller, model, realCreative, attempt, trace,
                 ret, backend_url, Screen, presetVars, decodeVars, auxVars>>

\* a call of call_enhanced_controlnet_api, up to json_data
EnhancedPrompts ==
  /\ c_pc = "idle"
  /\ \E a \in ArtStyles, s \in SketchTypeButtons, p \in FreeTexts,
        np \in CustomNegatives :
       /\ manual_style' = a
       /\ c_sketch_type' = s
       /\ prompt' = p
       /\ negative_prompt' = np
       /\ Composed("call_enhanced_controlnet_api", "-",
                   [style |-> a] @@ EnhancedTemplates(p, np, s, a),
                   EnhancedTemplates(Slot(p), np, s, a).enhanced_prompt)
  /\ UNCHANGED <<subject_type, theme, prev>>
  /\ UNCHANGED <<Config, pc, fn, caller, model, realCreative, attempt, trace,
                 ret, backend_url, Screen, presetVars, decodeVars, auxVars>>

\* a direct call of call_kaggle_sdxl_api, call_sdxl_http_api or
\* call_linoyts_approach_api, up to the request body
BackendCompose ==
  /\ c_pc = "idle"
  /\ \E f \in {"call_kaggle_sdxl_api", "call_sdxl_http_api",
               "call_linoyts_approach_api"},
        p \in FreeTexts, np \in CustomNegatives :
       /\ prompt' = p
       /\ negative_prompt' = np
       /\ Composed(f, "-", [style |-> "-"] @@ BackendPrompts(f, p, np), "-")
  /\ UNCHANGED <<subject_type, theme, c_sketch_type, manual_style, prev>>
  /\ UNCHANGED <<Config, pc, fn, caller, model, realCreative, attempt, trace,
                 ret, backend_url, Screen, presetVars, decodeVars, auxVars>>

\* Click on "Generate Painting", up to the request body: the negative prompt
\* of the handler, then the prompts of the branch of the selected model
GenerateCompose ==
  /\ c_pc = "idle"
  /\ \E st \in SUBJECT_TYPES, p \in FreeTexts, m \in PromptModels :
     \E th \in THEME_CATEGORIES[st] :
       LET np == HandlerNegative(p, th) IN
       /\ subject_type' = st
       /\ theme' = th
       /\ prompt' = p
       /\ negative_prompt' = np
       /\ IF m \in InlineModels
          THEN \E s \in SketchTypeButtons, ms \in ArtStyles :
                 /\ c_sketch_type' = s
                 /\ manual_style' = ms
                 /\ Composed("generate", m,
                             BranchPrompts(m, get_theme_info(th), s, p, ms, np),
                             BranchPrompts(m, SlotInfo(get_theme_info(th)), s,
                                           Slot(p), ms, np).enhanced_prompt)
          ELSE \* sdxl_prompt = prompt if prompt else theme
               /\ Composed("generate", m,
                           [style |-> "-"] @@
                             BackendPrompts(BackendOf(m),
                                            IF p # "" THEN p ELSE th, np),
                           "-")
               /\ UNCHANGED <<c_sketch_type, manual_style>>
  /\ UNCHANGED prev
  /\ UNCHANGED <<Config, pc, fn, caller, model, realCreative, attempt, trace,
                 ret, backend_url, Screen, presetVars, decodeVars, auxVars>>

\* the next run of the script: nothing of the last composition is kept;
\* prev remembers which template the last (art_style, sketch_type) pair and
\* a non-empty free text selected
NextRequest ==
  /\ c_pc = "composed"
  /\ c_pc' = "idle"
  /\ c_fn' = "-"
  /\ c_model' = "-"
  /\ subject_type' = "Human"
  /\ theme' = ""
  /\ prompt' = ""
  /\ c_sketch_type' = "face"
  /\ manual_style' = "realistic"
  /\ negative_prompt' = ""
  /\ enhanced_prompt' = ""
  /\ enhanced_negative' = ""
  /\ detected_style' = "-"
  /\ template' = "-"
  /\ prev' = IF template # "-" /\ prompt # ""
             THEN [art_style |-> detected_style, sketch_type |-> c_sketch_type,
                   template |-> template]
             ELSE prev
  /\ UNCHANGED <<Config, pc, fn, caller, model, realCreative, attempt, trace,
                 ret, backend_url, Screen, presetVars, decodeVars, auxVars>>

PromptInit ==
  /\ urlPlaceholder = FALSE
  /\ hfToken = TRUE
  /\ DispatchIdle
  /\ PresetIdle
  /\ PromptIdle
  /\ DecodeIdle
  /\ AuxIdle

PromptNext ==
  \/ ThemePrompts
  \/ EnhancedPrompts
  \/ BackendCompose
  \/ GenerateCompose

\* one composition: every function on every input of the sets above
PromptSpec == PromptInit /\ [][PromptNext]_vars

RerunNext ==
  \/ ThemePrompts
  \/ EnhancedPrompts
  \/ BackendCompose
  \/ GenerateCompose
  \/ NextRequest

\* composition after composition, as the script is run again and again
RerunSpec == PromptInit /\ [][RerunNext]_vars

(***************************************************************************)
(* Response decoding.  Image bytes are sequences of byte values; the text  *)
(* of a base64 field is a string.  An image object is the bytes it was     *)
(* opened from.                                                            *)
(***************************************************************************)

\* longest image, in bytes
MaxBytes == 3

ByteValues == {0, 77, 255}

RECURSIVE ByteSeqs(_)
ByteSeqs(n) ==
  IF n = 0 THEN {<<>>}
  ELSE ByteSeqs(n - 1) \cup {Append(b, x) : b \in ByteSeqs(n - 1), x \in ByteValues}

Base64Alphabet ==
  "ABCDEFGHIJKLMNOPQRSTUVWXYZabcdefghijklmnopqrstuvwxyz0123456789+/"

B64Char(i) == SubSeq(Base64Alphabet, i + 1, i + 1)
B64Index(c) == CHOOSE i \in 0..63 : B64Char(i) = c

\* base64.b64encode(image_bytes).decode("utf-8"): three bytes become four
\* characters, the last group is padded with "="
RECURSIVE b64encode(_)
b64encode(bs) ==
  CASE Len(bs) = 0 -> ""
    [] Len(bs) = 1 ->
         LET n == bs[1] * 16
         IN  B64Char(n \div 64) \o B64Char(n % 64) \o "=="
    [] Len(bs) = 2 ->
         LET n == (bs[1] * 256 + bs[2]) * 4
         IN  B64Char(n \div 4096) \o B64Char((n \div 64) % 64)
             \o B64Char(n % 64) \o "="
    [] OTHER ->
         LET n == bs[1] * 65536 + bs[2] * 256 + bs[3]
         IN  B64Char(n \div 262144) \o B64Char((n \div 4096) % 64)
             \o B64Char((n \div 64) % 64) \o B64Char(n % 64)
             \o b64encode(SubSeq(bs, 4, Len(bs)))

\* "=" is read as the character "A": every group gives three bytes
RECURSIVE b64decode_keepsPadding(_)
b64decode_keepsPadding(s) ==
  IF Len(s) < 4 THEN <<>>
  ELSE LET ix(k) == IF SubSeq(s, k, k) = "=" THEN 0 ELSE B64Index(SubSeq(s, k, k))
           n == ix(1) * 262144 + ix(2) * 4096 + ix(3) * 64 + ix(4)
       IN  <<n \div 65536, (n \div 256) % 256, n % 256>>
           \o b64decode_keepsPadding(SubSeq(s, 5, Len(s)))

\* base64.b64decode(s) on correctly padded text: four characters become
\* three bytes, fewer where the group ends in "="
RECURSIVE b64decode(_)
b64decode(s) ==
  IF Len(s) < 4 THEN <<>>
  ELSE LET c(k) == SubSeq(s, k, k)
           ix(k) == B64Index(c(k))
       IN  CASE c(3) = "=" /\ c(4) = "=" ->
                  <<(ix(1) * 64 + ix(2)) \div 16>>
             [] c(4) = "=" ->
                  LET n == (ix(1) * 4096 + ix(2) * 64 + ix(3)) \div 4
                  IN  <<n \div 256, n % 256>>
             [] OTHER ->
                  LET n == ix(1) * 262144 + ix(2) * 4096 + ix(3) * 64 + ix(4)
                  IN  <<n \div 65536, (n \div 256) % 256, n % 256>>
                      \o b64decode(SubSeq(s, 5, Len(s)))

\* b64.split(",")[-1]: what follows the last comma
RECURSIVE AfterLastComma(_)
AfterLastComma(s) ==
  IF \E i \in 1..Len(s) : SubSeq(s, i, i) = ","
  THEN LET i == CHOOSE j \in 1..Len(s) : SubSeq(s, j, j) = ","
       IN  AfterLastComma(SubSeq(s, i + 1, Len(s)))
  ELSE s

\* Image.open(io.BytesIO(b)): bytes that are no image raise
bytes_to_image(b) ==
  IF b = <<>> THEN NoImage ELSE [opened |-> TRUE, data |-> b]

\* base64_to_image(b64) of drawing_utils.py
base64_to_image(b64) == bytes_to_image(b64decode(AfterLastComma(b64)))

ResponseShapes == {"image", "json", "rpc"}

ArtifactPath == "/tmp/gradio/image.png"

\* the three ways a backend hands over the bytes of the generated image:
\*   image  the body, with an image content type (StreamingResponse of
\*          backend/main.py)
\*   json   a JSON body whose field "image" is the base64 text of the bytes
\*   rpc    a file written by the RPC client, named in the result
Encode(shape, bytes) ==
  CASE shape = "image" ->
         [NoResponse EXCEPT !.shape = shape, !.content_type = "image/png",
                            !.content = bytes]
    [] shape = "json" ->
         [NoResponse EXCEPT !.shape = shape,
                            !.content_type = "application/json",
                            !.image = b64encode(bytes)]
    [] OTHER ->
         [NoResponse EXCEPT !.shape = shape, !.path = ArtifactPath,
                            !.files = <<bytes>>]

HttpAdapters ==
  {"call_sdxl_http_api", "call_kaggle_sdxl_api",
   "call_local_controlnet_fallback", "base64_to_image"}

\* what the adapter makes of a 200 response
Decoded(adapter, r) ==
  CASE adapter = "call_sdxl_http_api" ->
         \* content type image/...: the body; otherwise the "image" field
         IF StrStartsWith(r.content_type, "image/")
         THEN bytes_to_image(r.content)
         ELSE IF r.image # "" THEN bytes_to_image(b64decode(r.image))
         ELSE NoImage
    [] adapter = "call_kaggle_sdxl_api" ->
         \* response.json(), then the "image" field
         IF r.content_type = "application/json" /\ r.image # ""
         THEN bytes_to_image(b64decode(r.image))
         ELSE NoImage
    [] adapter = "call_local_controlnet_fallback" ->
         \* the body, whatever the content type; a JSON body is no image
         IF r.content_type = "application/json" THEN NoImage
         ELSE bytes_to_image(r.content)
    [] adapter = "base64_to_image" ->
         IF r.image # "" THEN base64_to_image(r.image) ELSE NoImage
    [] OTHER ->
         \* call_sdxl_gradio_api: result[0] is a path; the file is opened if
         \* it exists
         IF r.path # "" /\ r.files # <<>>
         THEN bytes_to_image(r.files[1])
         ELSE NoImage

\* the backend produced an image and answers in one of the three shapes
Respond ==
  /\ d_pc = "idle"
  /\ \E shape \in ResponseShapes : response' = Encode(shape, image_bytes)
  /\ d_pc' = "responded"
  /\ UNCHANGED <<image_bytes, result_image>>
  /\ UNCHANGED <<Config, pc, fn, caller, model, realCreative, attempt, trace,
                 ret, backend_url, Screen, presetVars, promptVars, auxVars>>

\* an adapter of the frontend turns the response into an image
Decode ==
  /\ d_pc = "responded"
  /\ \E adapter \in IF response.shape = "rpc" THEN {"call_sdxl_gradio_api"}
                    ELSE HttpAdapters :
       result_image' = [by |-> adapter] @@ Decoded(adapter, response)
  /\ d_pc' = "decoded"
  /\ UNCHANGED <<image_bytes, response>>
  /\ UNCHANGED <<Config, pc, fn, caller, model, realCreative, attempt, trace,
                 ret, backend_url, Screen, presetVars, promptVars, auxVars>>

DecodeInit ==
  /\ urlPlaceholder = FALSE
  /\ hfToken = TRUE
  /\ DispatchIdle
  /\ PresetIdle
  /\ PromptIdle
  /\ AuxIdle
  /\ d_pc = "idle"
  /\ image_bytes \in ByteSeqs(MaxBytes) \ {<<>>}
  /\ response = NoResponse
  /\ result_image = NoImage

DecodeNext ==
  \/ Respond
  \/ Decode

DecodeSpec == DecodeInit /\ [][DecodeNext]_vars


(***************************************************************************)
(* The request parameters of call_enhanced_controlnet_api.                 *)
(***************************************************************************)

s_DetailedCurrent ==
  <<"D", "e", "t", "a", "i", "l", "e", "d", " ", "(", "C", "u", "r", "r",
    "e", "n", "t", ")">>

\* Python `s.startswith(pre)` on strings
SeqStartsWith(s, pre) == Len(pre) <= Len(s) /\ SubSeq(s, 1, Len(pre)) = pre

\* the if/elif/else of the ultra_realistic branch: optimal_params and
\* control_guidance_end are literals of the function
UltraParams(choice) ==
  IF SeqStartsWith(choice, s_Default) \/ choice = s_DetailedCurrent
  THEN [controlnet_conditioning_scale |-> 70, guidance_scale |-> 350,
        num_inference_steps |-> 30, control_guidance_end |-> 80]
  ELSE IF Contains(choice, s_Balanced)
  THEN [controlnet_conditioning_scale |-> 65, guidance_scale |-> 320,
        num_inference_steps |-> 32, control_guidance_end |-> 65]
  ELSE [controlnet_conditioning_scale |-> 58, guidance_scale |-> 300,
        num_inference_steps |-> 36, control_guidance_end |-> 50]

\* json_data of call_enhanced_controlnet_api, its parameter fields: the
\* ultra_realistic branch keeps the control_type argument, every other style
\* takes parameters and control_type from get_parameters_from_preset
EnhancedJson(a, s, choice, ct) ==
  IF a = "ultra_realistic"
  THEN LET u == UltraParams(choice)
       IN  [control_type |-> ct,
            controlnet_conditioning_scale |-> u.controlnet_conditioning_scale,
            guidance_scale |-> u.guidance_scale,
            num_inference_steps |-> u.num_inference_steps,
            control_guidance_end |-> u.control_guidance_end,
            use_refiner |-> TRUE]
  ELSE LET r == get_parameters_from_preset(a, s, choice)
       IN  [control_type |-> r.control_type,
            controlnet_conditioning_scale |->
              r.optimal_params.controlnet_conditioning_scale,
            guidance_scale |-> r.optimal_params.guidance_scale,
            num_inference_steps |-> r.optimal_params.num_inference_steps,
            control_guidance_end |-> 80,
            use_refiner |-> FALSE]

ControlTypes == {"scribble", "canny"}

\* call_enhanced_controlnet_api up to json_data
BuildRequest ==
  /\ r_pc = "idle"
  /\ json_data' = EnhancedJson(art_style, sketch_type, preset_choice, control_type)
  /\ r_pc' = "built"
  /\ UNCHANGED <<control_type>>
  /\ UNCHANGED <<Config, pc, fn, caller, model, realCreative, attempt, trace,
                 ret, backend_url, Screen, presetVars, promptVars, decodeVars>>
  /\ UNCHANGED notRequestVars

RequestInit ==
  /\ urlPlaceholder = FALSE
  /\ hfToken = TRUE
  /\ DispatchIdle
  /\ p_pc = "idle"
  /\ art_style \in Styles
  /\ sketch_type \in SketchTypes
  /\ preset_choice \in TierStrings
  /\ resolved = NoResult
  /\ PromptIdle
  /\ DecodeIdle
  /\ r_pc = "idle"
  /\ control_type \in ControlTypes
  /\ json_data = NoRequest
  /\ AnalysisIdle
  /\ NgrokIdle
  /\ BackendIdle
  /\ GradioIdle

RequestNext == BuildRequest

RequestSpec == RequestInit /\ [][RequestNext]_vars


(***************************************************************************)
(* Sketch analysis and auto-generation over script runs.  Every widget     *)
(* interaction reruns the script from the top; st.session_state is what    *)
(* one run leaves to the next.                                             *)
(***************************************************************************)

\* script runs followed
MaxRuns == 4

SmartModes == {"auto", "guided", "none"}
AnalysisOutcomes == {"analysis", "None"}

\* the flag is left as it is
ConsumeTrigger_kept(t) == t

\* st.session_state.trigger_auto_generation = False
ConsumeTrigger(t) == FALSE

\* auto_generate_from_sketch / guided_generate_from_sketch: one call of
\* analyze_sketch_with_qwen, which makes one chat.completions.create request
\* and returns None if it raises
ServiceCallsPerAnalysis == 1

\* an interaction starts a run; the run reaches the Smart AI panel if a mode
\* is selected and the "Analyze Sketch with AI" button of the mode was
\* clicked
StartRun ==
  /\ a_pc = "idle"
  /\ runs < MaxRuns
  /\ \E click \in {"analyze", "generate", "other"}, m \in SmartModes,
        cd \in BOOLEAN :
       /\ smart_mode' = m
       /\ canvas_data' = cd
       /\ analyze_clicked' = (click = "analyze" /\ m # "none")
       /\ generate_clicked' = (click = "generate")
       /\ a_pc' = IF click = "analyze" /\ m # "none"
                  THEN "analyze_button" ELSE "generate_section"
  /\ click_calls' = 0
  /\ UNCHANGED <<runs, trigger_auto_generation, triggers_set, auto_generations>>
  /\ UNCHANGED <<Config, pc, fn, caller, model, realCreative, attempt, trace,
                 ret, backend_url, Screen, presetVars, promptVars, decodeVars>>
  /\ UNCHANGED notAnalysisVars

\* `if st.button("Analyze Sketch with AI")`, first part: with canvas data
\* the analysis function is called, without it the run stops
AnalyzeButton ==
  /\ a_pc = "analyze_button"
  /\ IF canvas_data
     THEN /\ \E o \in AnalysisOutcomes :
               click_calls' = click_calls + ServiceCallsPerAnalysis
          /\ a_pc' = "analyze_spinner"
          /\ UNCHANGED runs
     ELSE \* "Please draw something on the canvas first!", st.stop()
          /\ a_pc' = "idle"
          /\ runs' = runs + 1
          /\ UNCHANGED click_calls
  /\ UNCHANGED <<smart_mode, canvas_data, analyze_clicked, generate_clicked,
                 trigger_auto_generation, triggers_set, auto_generations>>
  /\ UNCHANGED <<Config, pc, fn, caller, model, realCreative, attempt, trace,
                 ret, backend_url, Screen, presetVars, promptVars, decodeVars>>
  /\ UNCHANGED notAnalysisVars

\* same button, `with st.spinner(...)`: the analysis function is called
\* again; an analysis with a prompt sets the trigger
AnalyzeSpinner ==
  /\ a_pc = "analyze_spinner"
  /\ \E o \in AnalysisOutcomes :
       /\ click_calls' = click_calls + ServiceCallsPerAnalysis
       /\ IF o = "analysis"
          THEN /\ trigger_auto_generation' = TRUE
               /\ triggers_set' = triggers_set + 1
          ELSE UNCHANGED <<trigger_auto_generation, triggers_set>>
  /\ a_pc' = "generate_section"
  /\ UNCHANGED <<runs, smart_mode, canvas_data, analyze_clicked,
                 generate_clicked, auto_generations>>
  /\ UNCHANGED <<Config, pc, fn, caller, model, realCreative, attempt, trace,
                 ret, backend_url, Screen, presetVars, promptVars, decodeVars>>
  /\ UNCHANGED notAnalysisVars

\* the rest of the run: under `if input_image is not None` the trigger is
\* read and cleared, and the handler runs if the button was clicked or the
\* trigger was set; without an input image the run ends before
GenerateSection ==
  /\ a_pc = "generate_section"
  /\ \E input_image \in BOOLEAN :
       LET auto_generate == input_image /\ trigger_auto_generation
       IN  /\ trigger_auto_generation' =
                IF auto_generate THEN ConsumeTrigger(trigger_auto_generation)
                ELSE trigger_auto_generation
           /\ auto_generations' =
                IF auto_generate THEN auto_generations + 1 ELSE auto_generations
  /\ a_pc' = "idle"
  /\ runs' = runs + 1
  /\ UNCHANGED <<smart_mode, canvas_data, analyze_clicked, generate_clicked,
                 click_calls, triggers_set>>
  /\ UNCHANGED <<Config, pc, fn, caller, model, realCreative, attempt, trace,
                 ret, backend_url, Screen, presetVars, promptVars, decodeVars>>
  /\ UNCHANGED notAnalysisVars

AnalysisInit ==
  /\ urlPlaceholder = FALSE
  /\ hfToken = TRUE
  /\ DispatchIdle
  /\ PresetIdle
  /\ PromptIdle
  /\ DecodeIdle
  /\ AuxIdle

AnalysisNext ==
  \/ StartRun
  \/ AnalyzeButton
  \/ AnalyzeSpinner
  \/ GenerateSection

AnalysisSpec == AnalysisInit /\ [][AnalysisNext]_vars


(***************************************************************************)
(* The style the sidebar shows for the selected theme.                     *)
(***************************************************************************)

cartoon_keywords ==
  <<"cartoon", "anime", "animation", "disney", "pixar", "ghibli", "manga",
    "comic", "pop art", "watercolor", "impressionist", "van gogh", "cyborg",
    "robot", "steampunk", "cyberpunk", "fantasy", "sci-fi", "digital art">>

realistic_keywords ==
  <<"realistic", "photograph", "professional", "studio", "natural",
    "cinematic", "vintage", "modern", "headshot", "portrait", "fashion",
    "celebrity", "magazine", "artistic", "oil painting", "humanoid", "horror",
    "romantic">>

\* the realistic keywords are tried first
detect_theme_style_realisticFirst(theme_name) ==
  LET theme_lower == lower(theme_name)
  IN  IF \E i \in DOMAIN realistic_keywords :
           StrContains(theme_lower, realistic_keywords[i])
      THEN "realistic"
      ELSE IF \E i \in DOMAIN cartoon_keywords :
                StrContains(theme_lower, cartoon_keywords[i])
      THEN "cartoon"
      ELSE "realistic"

\* detect_theme_style(theme_name): cartoon keywords first, then realistic
\* keywords, realistic if none occurs
detect_theme_style(theme_name) ==
  LET theme_lower == lower(theme_name)
  IN  IF \E i \in DOMAIN cartoon_keywords :
           StrContains(theme_lower, cartoon_keywords[i])
      THEN "cartoon"
      ELSE IF \E i \in DOMAIN realistic_keywords :
                StrContains(theme_lower, realistic_keywords[i])
      THEN "realistic"
      ELSE "realistic"

\* the sidebar after the theme selectbox: "Style: ..." is detect_theme_style
\* of the theme
ShowThemeStyle ==
  /\ c_pc = "idle"
  /\ c_pc' = "shown"
  /\ c_fn' = "detect_theme_style"
  /\ detected_style' = detect_theme_style(theme)
  /\ UNCHANGED <<c_model, subject_type, theme, prompt, c_sketch_type,
                 manual_style, negative_prompt, enhanced_prompt,
                 enhanced_negative, template, prev>>
  /\ UNCHANGED <<Config, pc, fn, caller, model, realCreative, attempt, trace,
                 ret, backend_url, Screen, presetVars, decodeVars, auxVars>>

ThemeStyleInit ==
  /\ urlPlaceholder = FALSE
  /\ hfToken = TRUE
  /\ DispatchIdle
  /\ PresetIdle
  /\ DecodeIdle
  /\ AuxIdle
  /\ c_pc = "idle"
  /\ c_fn = "-"
  /\ c_model = "-"
  /\ subject_type = "Human"
  /\ theme \in AllThemes
  /\ prompt = ""
  /\ c_sketch_type = "face"
  /\ manual_style = "realistic"
  /\ negative_prompt = ""
  /\ enhanced_prompt = ""
  /\ enhanced_negative = ""
  /\ detected_style = "-"
  /\ template = "-"
  /\ prev = NoPrev

ThemeStyleNext == ShowThemeStyle

ThemeStyleSpec == ThemeStyleInit /\ [][ThemeStyleNext]_vars


(***************************************************************************)
(* ngrok_config.py run as a script, and imported afterwards.               *)
(***************************************************************************)

\* script runs followed
MaxScriptRuns == 2

\* URLs typed by the user; the third differs from the committed one only
\* where the committed one has a "."
Urls ==
  {CommittedUrl,
   "https://0123abcd4567.ngrok-free.app",
   "https://9ca1342d4666-ngrok-free-app",
   "https://your-ngrok-url-here.ngrok-free.app",
   "http://localhost:8000"}

\* re.match of a pattern without operators other than ".": same length, and
\* every character equal unless the pattern has "." there
RegexMatches(pat, text) ==
  /\ Len(pat) = Len(text)
  /\ \A i \in 1..Len(pat) :
       SubSeq(pat, i, i) = "." \/ SubSeq(pat, i, i) = SubSeq(text, i, i)

\* re.sub(r'CURRENT_NGROK_URL = "<pattern>"', f'CURRENT_NGROK_URL =
\* "<replacement>"', content): every occurrence of the pattern in the file,
\* the two literals of the call included, becomes the replacement literal;
\* new_url does not occur in the call
SubstituteUrl(file, new_url) ==
  [k \in DOMAIN file |->
     IF RegexMatches(file.pattern, file[k]) THEN file.replacement ELSE file[k]]

\* get_base_url() and get_backend_url()
get_base_url == CURRENT_NGROK_URL
get_backend_url == CURRENT_NGROK_URL \o "/generate"

\* python ngrok_config.py <new_url>: the __main__ block
RunScript ==
  /\ n_pc = "file"
  /\ Len(new_urls) < MaxScriptRuns
  /\ \E new_url \in Urls :
       /\ ngrok_file' = SubstituteUrl(ngrok_file, new_url)
       /\ new_urls' = Append(new_urls, new_url)
  /\ UNCHANGED <<n_pc, CURRENT_NGROK_URL>>
  /\ UNCHANGED <<Config, pc, fn, caller, model, realCreative, attempt, trace,
                 ret, backend_url, Screen, presetVars, promptVars, decodeVars>>
  /\ UNCHANGED notNgrokVars

\* import ngrok_config: the assignment of the file is executed
ImportConfig ==
  /\ n_pc = "file"
  /\ CURRENT_NGROK_URL' = ngrok_file.assignment
  /\ n_pc' = "imported"
  /\ UNCHANGED <<ngrok_file, new_urls>>
  /\ UNCHANGED <<Config, pc, fn, caller, model, realCreative, attempt, trace,
                 ret, backend_url, Screen, presetVars, promptVars, decodeVars>>
  /\ UNCHANGED notNgrokVars

\* the assignment may have been edited by hand before ("Update this URL
\* when your Kaggle backend generates a new ngrok tunnel")
NgrokInit ==
  /\ urlPlaceholder = FALSE
  /\ hfToken = TRUE
  /\ DispatchIdle
  /\ PresetIdle
  /\ PromptIdle
  /\ DecodeIdle
  /\ RequestIdle
  /\ AnalysisIdle
  /\ BackendIdle
  /\ GradioIdle
  /\ n_pc = "file"
  /\ ngrok_file \in {[CommittedFile EXCEPT !.assignment = u] : u \in Urls}
  /\ new_urls = <<>>
  /\ CURRENT_NGROK_URL = "-"

NgrokNext ==
  \/ RunScript
  \/ ImportConfig

NgrokSpec == NgrokInit /\ [][NgrokNext]_vars


(***************************************************************************)
(* The backend endpoint POST /generate (src/backend/main.py).              *)
(***************************************************************************)

BackendModels == {"Pix2Pix", "ControlNet", "FLUX", "SDXL ControlNet (HF)"}
BackendThemes == {"Van Gogh style", "Studio Ghibli style", "Realistic portrait"}
BackendPromptTexts == {"", "a boy"}

\* outcomes of generate_image_local
LocalOutcomes == {"bytes", "raises"}

\* JSONResponse(status_code=500, content={"error": ...})
Error500(by) == [status |-> 500, media |-> "application/json", by |-> by]

\* StreamingResponse(io.BytesIO(result_bytes), media_type="image/png")
Image200(by) == [status |-> 200, media |-> "image/png", by |-> by]

\* `if model == "Pix2Pix"`: run locally, else send to Colab
BackendRoute(m) == IF m = "Pix2Pix" THEN "local" ELSE "colab"

\* every response of Colab is passed on as an image
ColabReply_anyStatus(o) ==
  IF Raises(o) THEN Error500("colab") ELSE Image200("colab")

\* the reply after requests.post(COLAB_URL, ...): an exception and a
\* non-200 status give the 500 JSON error, a 200 passes response.content on
ColabReply(o) ==
  CASE Raises(o) -> Error500("colab")
    [] Status200(o) -> Image200("colab")
    [] OTHER -> Error500("colab")

\* generate, up to the branch on model: the upload is read and opened
ReceiveRequest ==
  /\ b_pc = "idle"
  /\ \E m \in BackendModels, th \in BackendThemes, p \in BackendPromptTexts,
        imageOk \in BOOLEAN :
       /\ b_model' = m
       /\ final_prompt' = IF p # "" THEN th \o ". " \o p ELSE th
       /\ IF imageOk
          THEN b_pc' = "dispatch" /\ UNCHANGED b_response
          ELSE \* Image.open raises: except Exception
               b_pc' = "done" /\ b_response' = Error500("upload")
  /\ UNCHANGED b_calls
  /\ UNCHANGED <<Config, pc, fn, caller, model, realCreative, attempt, trace,
                 ret, backend_url, Screen, presetVars, promptVars, decodeVars>>
  /\ UNCHANGED notBackendVars

\* generate_image_local(input_image, final_prompt)
GenerateLocal ==
  /\ b_pc = "dispatch"
  /\ BackendRoute(b_model) = "local"
  /\ \E o \in LocalOutcomes :
       /\ b_calls' = Append(b_calls, [to |-> "local", o |-> o])
       /\ b_response' = IF o = "bytes" THEN Image200("local") ELSE Error500("local")
  /\ b_pc' = "done"
  /\ UNCHANGED <<b_model, final_prompt>>
  /\ UNCHANGED <<Config, pc, fn, caller, model, realCreative, attempt, trace,
                 ret, backend_url, Screen, presetVars, promptVars, decodeVars>>
  /\ UNCHANGED notBackendVars

\* requests.post(COLAB_URL, files=files, data=data, timeout=600)
ForwardToColab ==
  /\ b_pc = "dispatch"
  /\ BackendRoute(b_model) = "colab"
  /\ \E o \in Outcomes :
       /\ b_calls' = Append(b_calls, [to |-> "colab", o |-> o])
       /\ b_response' = ColabReply(o)
  /\ b_pc' = "done"
  /\ UNCHANGED <<b_model, final_prompt>>
  /\ UNCHANGED <<Config, pc, fn, caller, model, realCreative, attempt, trace,
                 ret, backend_url, Screen, presetVars, promptVars, decodeVars>>
  /\ UNCHANGED notBackendVars

BackendInit ==
  /\ urlPlaceholder = FALSE
  /\ hfToken = TRUE
  /\ DispatchIdle
  /\ PresetIdle
  /\ PromptIdle
  /\ DecodeIdle
  /\ AuxIdle

BackendNext ==
  \/ ReceiveRequest
  \/ GenerateLocal
  \/ ForwardToColab

BackendSpec == BackendInit /\ [][BackendNext]_vars


(***************************************************************************)
(* The Gradio helpers call_sdxl_gradio_api, call_gradio_sdxl_robust and    *)
(* call_3d_model_api of app.py and the temporary image file each of them   *)
(* writes.  The file system is taken to work: tmp_file.write and os.unlink *)
(* succeed.                                                                *)
(***************************************************************************)

MaxCalls == 3

GradioHelpers ==
  {"call_sdxl_gradio_api", "call_gradio_sdxl_robust", "call_3d_model_api"}

\* answers of client.predict(..., api_name="/preprocess_image"), the
\* construction of the Client included
PreprocessOutcomes == {"raises", "empty", "no_file", "image"}

\* answers of client.predict(..., api_name="/image_to_3d")
Stage2Outcomes == {"raises", "no_video", "video"}

\* the finally block keeps every file
CleanUp_never(files, path) == files

\* the finally block: `if "temp_image_path" in locals(): os.unlink(...)`
CleanUp(files, path) == IF path # NoPath THEN files \ {path} ELSE files

\* the function is left on the exit path e; the finally block runs first
Leave(how, e) ==
  /\ g_pc' = how
  /\ g_exit' = e
  /\ temp_files' = CleanUp(temp_files, temp_image_path)

\* the imports and the NamedTemporaryFile(delete=False) block
EnterHelper ==
  /\ g_pc \in {"idle", "returned", "raised"}
  /\ g_calls < MaxCalls
  /\ g_calls' = g_calls + 1
  /\ \E f \in GradioHelpers, installed \in BOOLEAN :
       /\ g_fn' = f
       /\ IF installed
          THEN /\ temp_files' = temp_files \cup {g_calls + 1}
               /\ temp_image_path' = g_calls + 1
               /\ g_created' = g_calls + 1
               /\ g_pc' = "client"
               /\ g_exit' = "-"
          ELSE \* ImportError before the file is created; call_3d_model_api
               \* has no handler for it
               /\ temp_image_path' = NoPath
               /\ g_created' = NoPath
               /\ g_pc' = IF f = "call_3d_model_api" THEN "raised" ELSE "returned"
               /\ g_exit' = "import_error"
               /\ temp_files' = CleanUp(temp_files, NoPath)
  /\ g_trace' = <<>>
  /\ UNCHANGED <<Config, pc, fn, caller, model, realCreative, attempt, trace,
                 ret, backend_url, Screen, presetVars, promptVars, decodeVars>>
  /\ UNCHANGED notGradioVars

\* Client(...) and the first client.predict of the two SDXL helpers
PredictSdxl ==
  /\ g_pc = "client"
  /\ g_fn \in {"call_sdxl_gradio_api", "call_gradio_sdxl_robust"}
  /\ \E o \in PreprocessOutcomes :
       /\ g_trace' = Append(g_trace, <<"/preprocess_image", o>>)
       /\ CASE o = "raises" -> Leave("returned", "client_exception")
            [] o = "empty" -> Leave("returned", "empty_result")
            [] o = "no_file" -> Leave("returned", "empty_result")
            [] o = "image" -> Leave("returned", "success")
  /\ UNCHANGED <<g_fn, g_calls, temp_image_path, g_created>>
  /\ UNCHANGED <<Config, pc, fn, caller, model, realCreative, attempt, trace,
                 ret, backend_url, Screen, presetVars, promptVars, decodeVars>>
  /\ UNCHANGED notGradioVars

\* Client(...) and stage 1 of call_3d_model_api
Preprocess3d ==
  /\ g_pc = "client"
  /\ g_fn = "call_3d_model_api"
  /\ \E o \in PreprocessOutcomes :
       /\ g_trace' = Append(g_trace, <<"/preprocess_image", o>>)
       /\ CASE o = "raises" -> g_pc' = "fallback" /\ UNCHANGED <<g_exit, temp_files>>
            [] o = "empty" -> Leave("returned", "empty_result")
            [] o \in {"no_file", "image"} ->
                 g_pc' = "stage2" /\ UNCHANGED <<g_exit, temp_files>>
  /\ UNCHANGED <<g_fn, g_calls, temp_image_path, g_created>>
  /\ UNCHANGED <<Config, pc, fn, caller, model, realCreative, attempt, trace,
                 ret, backend_url, Screen, presetVars, promptVars, decodeVars>>
  /\ UNCHANGED notGradioVars

\* stage 2 of call_3d_model_api
Generate3d ==
  /\ g_pc = "stage2"
  /\ \E o \in Stage2Outcomes :
       /\ g_trace' = Append(g_trace, <<"/image_to_3d", o>>)
       /\ CASE o = "raises" -> g_pc' = "fallback" /\ UNCHANGED <<g_exit, temp_files>>
            [] o = "no_video" -> Leave("returned", "empty_result")
            [] o = "video" -> Leave("returned", "success")
  /\ UNCHANGED <<g_fn, g_calls, temp_image_path, g_created>>
  /\ UNCHANGED <<Config, pc, fn, caller, model, realCreative, attempt, trace,
                 ret, backend_url, Screen, presetVars, promptVars, decodeVars>>
  /\ UNCHANGED notGradioVars

\* the except branch of call_3d_model_api: one POST to the backend
Fallback3d ==
  /\ g_pc = "fallback"
  /\ \E o \in Outcomes :
       /\ g_trace' = Append(g_trace, <<"backend", o>>)
       /\ IF o = "ok_image"
          THEN Leave("returned", "fallback_success")
          ELSE \* a status other than 200, an exception of requests.post or of
               \* bytes_to_image
               Leave("returned", "fallback_failure")
  /\ UNCHANGED <<g_fn, g_calls, temp_image_path, g_created>>
  /\ UNCHANGED <<Config, pc, fn, caller, model, realCreative, attempt, trace,
                 ret, backend_url, Screen, presetVars, promptVars, decodeVars>>
  /\ UNCHANGED notGradioVars

TempFileInit ==
  /\ urlPlaceholder = FALSE
  /\ hfToken = TRUE
  /\ DispatchIdle
  /\ PresetIdle
  /\ PromptIdle
  /\ DecodeIdle
  /\ AuxIdle

TempFileNext ==
  \/ EnterHelper
  \/ PredictSdxl
  \/ Preprocess3d
  \/ Generate3d
  \/ Fallback3d

TempFileSpec == TempFileInit /\ [][TempFileNext]_vars

(***************************************************************************)
(* Properties                                                              *)
(***************************************************************************)

\* backends that are called from inside a retry loop
RetryLoopBackends == {"kaggle", "union", "linoyts", "enhanced", "inline"}

\* backends whose address is get_backend_url() / get_base_url()
ConfiguredUrlBackends ==
  {"kaggle", "union", "linoyts", "enhanced", "inline", "local", "td_local",
   "generic_ngrok"}

\* functions that are a fallback chain ending in the local ControlNet backend
ChainFns == {"hf", "kaggle", "union", "linoyts"}

Returned == pc \in {"returned", "generic", "done"}

AllTimeout(c) == \A i \in 1..Len(c) : c[i] = "timeout"

\* C1: when every attempt on the primary backend times out and the local
\* fallback succeeds, the dispatch has made exactly 3 calls to the primary
\* backend, then exactly 1 call to the fallback, and returns the fallback's
\* image.
C1_RetryThenFallback ==
  \A f \in RemoteFns :
    ( /\ Returned
      /\ fn = f
      /\ AllTimeout(CallsTo(trace, f))
      /\ CallsTo(trace, "local") = <<"ok_image">> )
    => /\ CallsTo(trace, f) = <<"timeout", "timeout", "timeout">>
       /\ CallOrder(trace) = <<f, f, f, "local">>
       /\ ret = RetImage("local")

C1_Witness ==
  /\ pc = "returned"
  /\ fn = "kaggle"
  /\ CallsTo(trace, "kaggle") = <<"timeout", "timeout", "timeout">>
  /\ CallsTo(trace, "local") = <<"ok_image">>
  /\ ret = RetImage("local")

\* C2: in call_kaggle_sdxl_api, call_controlnet_union_official_api and
\* call_linoyts_approach_api a structurally invalid response (HTTP 200 with
\* an unparseable body or without the 'image' field) is the last call made
\* to that backend: it is never retried.
C2_ProtocolErrorNotRetried ==
  \A f \in RemoteFns :
    LET c == CallsTo(trace, f) IN
    \A i \in 1..Len(c) : c[i] \in {"ok_badjson", "ok_noimage"} => i = Len(c)

\* C3: in every retry loop a timeout or a connection error on an attempt
\* that is not the last allowed one is followed by a backoff sleep and then
\* by another attempt on the same backend (no move to the fallback).
C3_TimeoutAndConnErrRetried ==
  \A i \in 1..Len(trace) :
    ( /\ trace[i].k = "call"
      /\ trace[i].b \in RetryLoopBackends
      /\ trace[i].o \in {"timeout", "connerr"}
      /\ Len(CallsTo(SubSeq(trace, 1, i), trace[i].b)) < max_retries )
    => /\ i < Len(trace)
       /\ trace[i + 1].k = "sleep"
       /\ trace[i + 1].b = trace[i].b
       /\ (i + 2 <= Len(trace) =>
             trace[i + 2].k = "call" /\ trace[i + 2].b = trace[i].b)

\* C4: first success wins: in every fallback chain, a call that brings an
\* image is the last network call of the dispatch, and the dispatch returns
\* that backend's image.
C4_FirstSuccessWins ==
  fn \in ChainFns =>
    \A i \in 1..Len(trace) :
      (trace[i].k = "call" /\ trace[i].o = "ok_image")
      => (i = Len(trace) /\ ret = RetImage(trace[i].b))

C4_Witness ==
  /\ pc = "returned"
  /\ fn = "hf"
  /\ CallOrder(trace) = <<"http1", "http2">>
  /\ CallsTo(trace, "http2") = <<"ok_image">>
  /\ ret = RetImage("http2")

\* the per-backend list that a failure value carries: None carries none
FailureAttempts(r) == IF "attempts" \in DOMAIN r THEN r.attempts ELSE <<>>

C6_ExactlyOneOutcome ==
  (pc = "done" /\ caller = "handler") => shown + reported = 1

\* C7: one dispatch makes at most 3 network calls to a backend that is
\* called from a retry loop and at most 1 call to the local fallback; the
\* three remote-then-local functions make at most 3 + 1 calls in total.
C7_BoundedRetries ==
  /\ \A b \in RetryLoopBackends : Len(CallsTo(trace, b)) <= 3
  /\ Len(CallsTo(trace, "local")) <= 1
  /\ fn \in RemoteFns => Len(CallOrder(trace)) <= 3 + 1

C7_Witness ==
  /\ fn = "linoyts"
  /\ Len(CallsTo(trace, "linoyts")) = 3
  /\ Len(CallsTo(trace, "local")) = 1

\* C8: while the configured backend URL is the placeholder, no network call
\* is made to a backend at that URL, on any path (the local fallback of
\* call_3d_model_api included).
C8_PlaceholderNoNetworkCall ==
  urlPlaceholder =>
    \A i \in 1..Len(trace) :
      trace[i].k = "call" => trace[i].b \notin ConfiguredUrlBackends

\* sub is a contiguous part of s
HasSub(s, sub) ==
  \E i \in 0..Len(s) : \E j \in i..Len(s) : SubSeq(s, i + 1, j) = sub

ExpectedTier(c) ==
  IF HasSub(c, s_Creative) THEN "Creative"
  ELSE IF HasSub(c, s_Balanced) THEN "Balanced"
  ELSE "Default"

PairPresent ==
  /\ art_style \in {"realistic", "cartoon", "ultra_realistic"}
  /\ sketch_type \in {"face", "full_body"}

\* C9: the resolved tier is Creative if the tier string contains "Creative",
\* otherwise Balanced if it contains "Balanced", otherwise Default; for a
\* pair of the table the returned parameters are those of that tier;
\* "Default (Recommended)" resolves to Default and a string with both words
\* resolves to Creative.
C9_TierMatching ==
  p_pc = "resolved" =>
    /\ resolved.preset_key = ExpectedTier(preset_choice)
    /\ PairPresent =>
         LET e == PRESET_PARAMETERS[art_style][sketch_type][ExpectedTier(preset_choice)]
         IN  /\ resolved.control_type = e.control_type
             /\ \A k \in DOMAIN resolved.optimal_params :
                  resolved.optimal_params[k] = e[k]
    /\ preset_choice = s_Default \o s_Recommended
         => resolved.preset_key = "Default"
    /\ preset_choice \in {s_Creative \o s_Balanced, s_Balanced \o s_Creative}
         => resolved.preset_key = "Creative"

C9_Witness ==
  /\ p_pc = "resolved"
  /\ preset_choice = s_Balanced \o s_Creative
  /\ art_style = "cartoon"
  /\ sketch_type = "face"
  /\ resolved.preset_key = "Creative"
  /\ resolved.optimal_params.num_inference_steps = 36

\* C10: for a (style, sketch_type) pair that is not in PRESET_PARAMETERS and
\* any tier string, get_parameters_from_preset returns the parameters and
\* control type of (realistic, face, Default), reports the fallback, and
\* raises nothing.
C10_AbsentPairFallsBack ==
  (p_pc = "resolved" /\ ~PairPresent) =>
    /\ ~resolved.raised
    /\ resolved.diag
    /\ resolved.optimal_params =
         [controlnet_conditioning_scale |-> 95, guidance_scale |-> 650,
          num_inference_steps |-> 30]
    /\ resolved.control_type = "scribble"

C10_Witness ==
  /\ p_pc = "resolved"
  /\ art_style = "anime"
  /\ sketch_type = "hand"
  /\ preset_choice = s_Creative
  /\ resolved.diag
  /\ resolved.optimal_params.guidance_scale = 650

\* C11: get_parameters_from_preset("realistic", "face", "Creative") returns
\* conditioning scale 0.8, guidance scale 7.0, 30 steps and control type
\* "scribble" (floats in hundredths), without the fallback diagnostic.
C11_RealisticFaceCreative ==
  (/\ p_pc = "resolved"
   /\ art_style = "realistic"
   /\ sketch_type = "face"
   /\ preset_choice = s_Creative) =>
    /\ ~resolved.raised
    /\ ~resolved.diag
    /\ resolved.optimal_params.controlnet_conditioning_scale = 80
    /\ resolved.optimal_params.guidance_scale = 700
    /\ resolved.optimal_params.num_inference_steps = 30
    /\ resolved.control_type = "scribble"

C11_Witness ==
  /\ p_pc = "resolved"
  /\ art_style = "realistic"
  /\ sketch_type = "face"
  /\ preset_choice = s_Creative
  /\ resolved.preset_key = "Creative"
  /\ resolved.optimal_params.guidance_scale = 700

\* C12: whatever the style, the sketch type and the tier string, fallback
\* path included, get_parameters_from_preset returns a conditioning scale
\* within [0, 1], a guidance scale within [1, 10], a positive number of
\* steps and the control type scribble or canny (floats in hundredths).
C12_ParametersInRange ==
  p_pc = "resolved" =>
    /\ ~resolved.raised
    /\ resolved.optimal_params.controlnet_conditioning_scale \in 0..100
    /\ resolved.optimal_params.guidance_scale \in 100..1000
    /\ resolved.optimal_params.num_inference_steps \in Nat \ {0}
    /\ resolved.control_type \in {"scribble", "canny"}

\* the smallest conditioning scale of the table next to its largest
\* guidance scale
C12_Witness ==
  /\ p_pc = "resolved"
  /\ art_style = "ultra_realistic"
  /\ sketch_type = "full_body"
  /\ preset_choice = s_Balanced \o s_Recommended
  /\ resolved.optimal_params.controlnet_conditioning_scale = 40
  /\ resolved.optimal_params.guidance_scale = 800
  /\ resolved.control_type = "canny"

(***************************************************************************)
(* Properties of the prompt composition                                    *)
(***************************************************************************)

\* the code sites that compose a positive prompt from a template
TemplateSites ==
  \/ c_fn \in {"get_enhanced_prompts_for_theme", "call_enhanced_controlnet_api"}
  \/ c_fn = "generate" /\ c_model \in InlineModels

\* C13: for every theme, sketch type, art style and non-empty free text, the
\* positive prompt composed by get_enhanced_prompts_for_theme, by
\* call_enhanced_controlnet_api and by the two "SDXL + ControlNet" branches
\* of the Generate handler (style override included) starts with the free
\* text verbatim.
C13_FreeTextLeads ==
  (c_pc = "composed" /\ TemplateSites /\ prompt # "") =>
    StrStartsWith(enhanced_prompt, prompt)

VanGoghOpening ==
  "anime style portrait, Van Gogh style painting, post-impressionist, bold colors, expressive brushstrokes, artistic"

\* theme "Van Gogh style", sketch type face, cartoon style, no free text:
\* get_enhanced_prompts_for_theme on its own, or an "SDXL + ControlNet"
\* branch with the cartoon style selected
VanGoghCase ==
  /\ c_pc = "composed"
  /\ theme = "Van Gogh style"
  /\ c_sketch_type = "face"
  /\ prompt = ""
  /\ \/ c_fn = "get_enhanced_prompts_for_theme"
     \/ c_fn = "generate" /\ c_model \in InlineModels /\ manual_style = "cartoon"

\* C14: with an empty free text the opening fragment of the template leads:
\* for theme "Van Gogh style", sketch type face and cartoon style the
\* positive prompt begins with "anime style portrait, Van Gogh style
\* painting, post-impressionist, bold colors, expressive brushstrokes,
\* artistic".
C14_TemplateOpeningLeads ==
  VanGoghCase =>
    /\ detected_style = "cartoon"
    /\ StrStartsWith(enhanced_prompt, VanGoghOpening)

C14_Witness ==
  /\ VanGoghCase
  /\ c_fn = "generate"
  /\ c_model = "SDXL + ControlNet Official (Kaggle)"
  /\ enhanced_prompt =
       VanGoghOpening \o ", stylized features, clean lines, detailed illustration, single face"

SixPairs == ArtStyles \X SketchTypeButtons

\* C15: for a non-empty free text each (art_style, sketch_type) pair of
\* {realistic, cartoon, ultra_realistic} x {face, full_body} selects one
\* template, whatever the theme and whichever code site composes, and
\* different pairs select different templates: two compositions have the
\* same template exactly if they have the same pair.
C15_OneTemplatePerPair ==
  (/\ c_pc = "composed"
   /\ TemplateSites
   /\ prompt # ""
   /\ prev # NoPrev
   /\ <<detected_style, c_sketch_type>> \in SixPairs
   /\ <<prev.art_style, prev.sketch_type>> \in SixPairs) =>
    ((prev.art_style = detected_style /\ prev.sketch_type = c_sketch_type)
       <=> prev.template = template)

GenericNegative ==
  "deformed, extra limbs, multiple faces, mutated hands, blurry, out of focus, low quality"

AnatomicalTerms ==
  "deformed, extra limbs, multiple faces, mutated hands, blurry, out of focus, low quality, glitch, split face, extra heads, extra bodies, anatomical error"

\* the negative fragment stored with the theme, the generic one if none is
StoredNegative(th) ==
  IF th \in DOMAIN THEME_DESCRIPTIONS
  THEN THEME_DESCRIPTIONS[th].negative_prompt
  ELSE GenericNegative

StoredStyle(th) ==
  IF th \in DOMAIN THEME_DESCRIPTIONS THEN THEME_DESCRIPTIONS[th].style
  ELSE "realistic"

\* C16: for every theme, known or not, every sketch type and free text, the
\* negative prompt of get_enhanced_prompts_for_theme is, in this order: the
\* negative fragment stored with the theme (the generic defect fragment if
\* the theme has none), the fixed anatomical-defect terms, "multiple people"
\* for a full-body sketch, and "realistic, photograph" for a cartoon theme;
\* nothing else, nothing missing.
C16_NegativeOrder ==
  (c_pc = "composed" /\ c_fn = "get_enhanced_prompts_for_theme") =>
    /\ StoredNegative(theme) # ""
    /\ enhanced_negative =
         StoredNegative(theme) \o ", " \o AnatomicalTerms
         \o (IF c_sketch_type = "face" THEN "" ELSE ", multiple people")
         \o (IF StoredStyle(theme) = "cartoon" THEN ", realistic, photograph" ELSE "")

\* a theme without a description, full body, with a free text
C16_Witness ==
  /\ c_pc = "composed"
  /\ c_fn = "get_enhanced_prompts_for_theme"
  /\ theme = "Modern skyscraper"
  /\ c_sketch_type = "full_body"
  /\ prompt = "red barn"
  /\ enhanced_negative =
       GenericNegative \o ", " \o AnatomicalTerms \o ", multiple people"

\* the functions that take a custom negative prompt as an argument
RunsNegativeOf(f) ==
  \/ c_fn = f
  \/ c_fn = "generate" /\ c_model \notin InlineModels /\ BackendOf(c_model) = f

\* C17, as stated: with a non-empty custom negative prompt, the negative
\* prompt sent by call_enhanced_controlnet_api, call_kaggle_sdxl_api,
\* call_sdxl_http_api and call_linoyts_approach_api is the default fragments
\* followed by the custom text as the last fragment.
C17_CustomNegativeAppended ==
  (/\ c_pc = "composed"
   /\ c_fn \in {"call_enhanced_controlnet_api", "call_kaggle_sdxl_api",
                "call_sdxl_http_api", "call_linoyts_approach_api"}
   /\ negative_prompt # "") =>
    /\ StrEndsWith(enhanced_negative, ", " \o negative_prompt)
    /\ Len(enhanced_negative) > Len(negative_prompt) + 2

\* C17, as amended: call_enhanced_controlnet_api sends its default fragments
\* followed by the custom text as the last fragment; call_kaggle_sdxl_api,
\* call_sdxl_http_api and call_linoyts_approach_api send a non-empty custom
\* negative prompt alone, in place of their defaults, and their defaults
\* only when the custom text is empty.
C17_AppendedOrInPlace ==
  c_pc = "composed" =>
    /\ (c_fn = "call_enhanced_controlnet_api" /\ negative_prompt # "") =>
         /\ StrEndsWith(enhanced_negative, ", " \o negative_prompt)
         /\ SubSeq(enhanced_negative, 1,
                   Len(enhanced_negative) - Len(negative_prompt) - 2)
              = EnhancedTemplates(prompt, "", c_sketch_type, manual_style).enhanced_negative
    /\ \A f \in {"call_kaggle_sdxl_api", "call_sdxl_http_api",
                 "call_linoyts_approach_api"} :
         RunsNegativeOf(f) =>
           enhanced_negative =
             IF negative_prompt # "" THEN negative_prompt
             ELSE IF f = "call_linoyts_approach_api" THEN linoyts_negative
             ELSE balanced_negative

C17_Witness ==
  /\ c_pc = "composed"
  /\ c_fn = "call_kaggle_sdxl_api"
  /\ negative_prompt = "watermark, text"
  /\ enhanced_negative = "watermark, text"

BoyExclusion == "adult, woman, female, girl, old person, elderly, mature"
GirlExclusion == "man, boy, male, child, kid, young"
ManExclusion == "woman, girl, female, lady"
HumanExclusion == "human, person, man, woman, child, boy, girl"

MentionsBoy(p) == p # "" /\ any_in({"boy", "child", "kid", "young"}, lower(p))
MentionsGirl(p) == p # "" /\ any_in({"girl", "woman", "female", "lady"}, lower(p))
MentionsMan(p) == p # "" /\ any_in({"man", "male", "guy", "dude"}, lower(p))

\* C18: the negative prompt of the handler is base_negative followed by at
\* most one context exclusion, chosen in the order boy/child keywords, then
\* girl/woman keywords, then man keywords, then the rule of the non-human
\* themes; a free text with a boy keyword and a girl keyword gets the
\* boy/child exclusion only.
C18_OneExclusionByPriority ==
  (c_pc = "composed" /\ c_fn = "generate") =>
    /\ negative_prompt \in
         {base_negative} \cup
         {base_negative \o ", " \o x :
            x \in {BoyExclusion, GirlExclusion, ManExclusion, HumanExclusion}}
    /\ MentionsBoy(prompt) =>
         negative_prompt = base_negative \o ", " \o BoyExclusion
    /\ (~MentionsBoy(prompt) /\ MentionsGirl(prompt)) =>
         negative_prompt = base_negative \o ", " \o GirlExclusion
    /\ (~MentionsBoy(prompt) /\ ~MentionsGirl(prompt) /\ MentionsMan(prompt)) =>
         negative_prompt = base_negative \o ", " \o ManExclusion
    /\ (~MentionsBoy(prompt) /\ ~MentionsGirl(prompt) /\ ~MentionsMan(prompt)) =>
         negative_prompt \in
           {base_negative, base_negative \o ", " \o HumanExclusion}

\* a free text with a girl keyword and a boy keyword, on a theme that the
\* non-human rule matches as well
C18_Witness ==
  /\ c_pc = "composed"
  /\ c_fn = "generate"
  /\ prompt = "Girl with a boy"
  /\ theme = "Animal illustration"
  /\ negative_prompt = base_negative \o ", " \o BoyExclusion

Reads(adapter, shape) ==
  \/ shape = "image" /\ adapter \in {"call_sdxl_http_api", "call_local_controlnet_fallback"}
  \/ shape = "json" /\ adapter \in {"call_sdxl_http_api", "call_kaggle_sdxl_api",
                                    "base64_to_image"}
  \/ shape = "rpc" /\ adapter = "call_sdxl_gradio_api"

C21_SingleSourceOfTruth ==
  (r_pc = "built" /\ art_style \in {"realistic", "cartoon", "ultra_realistic"}) =>
    LET r == get_parameters_from_preset(art_style, sketch_type, preset_choice)
    IN  /\ json_data.controlnet_conditioning_scale =
             r.optimal_params.controlnet_conditioning_scale
        /\ json_data.guidance_scale = r.optimal_params.guidance_scale
        /\ json_data.num_inference_steps = r.optimal_params.num_inference_steps
        /\ json_data.control_type = r.control_type

ValidStyles == {"realistic", "cartoon", "ultra_realistic"}
ValidSketchTypes == {"face", "full_body"}
Tiers == {"Default", "Balanced", "Creative"}
ParameterFields ==
  {"controlnet_conditioning_scale", "guidance_scale", "num_inference_steps",
   "control_type"}

\* C22: every (style, sketch_type) of {realistic, cartoon, ultra_realistic}
\* x {face, full_body} has the three tiers Default, Balanced and Creative in
\* PRESET_PARAMETERS, each with the four fields, and for such a pair
\* get_parameters_from_preset never takes its fallback path, whatever the
\* preset label.
C22_TableComplete ==
  /\ \A a \in ValidStyles, s \in ValidSketchTypes :
       /\ a \in DOMAIN PRESET_PARAMETERS
       /\ s \in DOMAIN PRESET_PARAMETERS[a]
       /\ DOMAIN PRESET_PARAMETERS[a][s] = Tiers
       /\ \A k \in Tiers : DOMAIN PRESET_PARAMETERS[a][s][k] = ParameterFields
  /\ (/\ p_pc = "resolved"
      /\ art_style \in ValidStyles
      /\ sketch_type \in ValidSketchTypes) =>
       /\ ~resolved.diag
       /\ ~resolved.raised
       /\ resolved.control_type =
            PRESET_PARAMETERS[art_style][sketch_type][resolved.preset_key].control_type

\* the last pair and tier of the table, reached without the fallback
C22_Witness ==
  /\ p_pc = "resolved"
  /\ art_style = "cartoon"
  /\ sketch_type = "full_body"
  /\ preset_choice = s_Creative \o s_SimpleSketch
  /\ resolved.preset_key = "Creative"
  /\ ~resolved.diag
  /\ resolved.optimal_params.num_inference_steps = 36

(***************************************************************************)
(* Properties of the dispatch, continued                                   *)
(***************************************************************************)

\* number of calls to backend b among the first i entries of the trace
CallsBefore(b, i) ==
  Cardinality({j \in 1..i : trace[j].k = "call" /\ trace[j].b = b})

\* C23: in the retry loops of call_kaggle_sdxl_api,
\* call_controlnet_union_official_api and call_linoyts_approach_api a 404 on
\* the first or second attempt is followed by a 2-second sleep and another
\* attempt on the same backend; a 404 on the third attempt and any other
\* non-200 status on any attempt are followed at once by the local backend,
\* with no sleep and no further attempt; no backend gets more than 3
\* attempts.
C23_NotFoundRetried ==
  \A i \in 1..Len(trace) :
    (trace[i].k = "call" /\ trace[i].b \in RemoteFns) =>
      LET f == trace[i].b
          n == CallsBefore(f, i)
          last == i = Len(trace)
      IN  /\ n <= 3
          /\ (trace[i].o = "s404" /\ n < 3) =>
               /\ ~last
               /\ trace[i + 1] = Sleep(f, 2)
               /\ IF i + 1 = Len(trace)
                  THEN pc = "remote_loop" /\ fn = f
                  ELSE trace[i + 2].k = "call" /\ trace[i + 2].b = f
          /\ (trace[i].o = "s500" \/ (trace[i].o = "s404" /\ n = 3)) =>
               IF last THEN pc = "local"
               ELSE trace[i + 1].k = "call" /\ trace[i + 1].b = "local"

\* three 404s, two sleeps between them, then the local backend
C23_Witness ==
  /\ Len(trace) = 6
  /\ \A i \in {1, 3, 5} : trace[i] = Call("union", "s404")
  /\ \A i \in {2, 4} : trace[i] = Sleep("union", 2)
  /\ trace[6].k = "call" /\ trace[6].b = "local"

\* the models with a branch of their own in the if/elif chain of the handler
DedicatedModels ==
  {"SDXL + ControlNet (Kaggle)", "SDXL + ControlNet Official (Kaggle)",
   "Linoyts Approach (Kaggle)", "3D Model (HF)", "SDXL ControlNet (HF)",
   "SDXL ControlNet (Kaggle)"}

GenericCalls ==
  {i \in 1..Len(trace) :
     trace[i].k = "call" /\ trace[i].b \in {"generic_ngrok", "generic_localhost"}}

\* C24: one dispatch path runs per click: for a model with a dedicated
\* branch the multipart POST to backend_url at the end of the handler is not
\* executed, so no request goes to backend_url after the branch, and once
\* the branch has shown its image no error is reported for the request.
C24_OneDispatchPath ==
  (caller = "handler" /\ model \in DedicatedModels) =>
    /\ GenericCalls = {}
    /\ (pc = "done" /\ shown >= 1) => reported = 0

(***************************************************************************)
(* Properties of the sketch analysis                                       *)
(***************************************************************************)

\* C25: auto-generation fires at most once per analysis that set the
\* trigger: the generations started by the trigger, plus one if the trigger
\* is still set, never exceed the analyses that set it, so reruns without a
\* new analysis start no second automatic generation.
C25_AutoGenerationOnce ==
  auto_generations + (IF trigger_auto_generation THEN 1 ELSE 0) <= triggers_set

\* one analysis, its automatic generation, and two more runs after it
C25_Witness ==
  /\ a_pc = "idle"
  /\ runs = 3
  /\ triggers_set = 1
  /\ auto_generations = 1
  /\ ~trigger_auto_generation

\* C26: one click on "Analyze Sketch with AI", in auto mode and in guided
\* mode, invokes the sketch-analysis service exactly once: when the run of
\* the click has passed the button, it has made one call.
C26_OneAnalysisPerClick ==
  (analyze_clicked /\ a_pc = "generate_section") => click_calls = 1

(***************************************************************************)
(* Properties of the theme style                                           *)
(***************************************************************************)

\* C27: for every theme of THEME_DESCRIPTIONS the style that
\* detect_theme_style returns, and the sidebar shows, is the theme's stored
\* "style", which get_enhanced_prompts_for_theme composes the prompt with.
C27_DetectedStyleIsStored ==
  (c_pc = "shown" /\ theme \in DOMAIN THEME_DESCRIPTIONS) =>
    detected_style = THEME_DESCRIPTIONS[theme].style

\* a theme with a cartoon keyword ("ghibli") and a realistic one ("studio")
C27_Witness ==
  /\ c_pc = "shown"
  /\ theme = "Studio Ghibli style"
  /\ THEME_DESCRIPTIONS[theme].style = "cartoon"
  /\ detected_style = "cartoon"

(***************************************************************************)
(* Properties of ngrok_config.py                                           *)
(***************************************************************************)

\* C28: after ngrok_config.py was run as a script with a new URL, an import
\* of the module makes get_base_url() return that URL and get_backend_url()
\* return it followed by "/generate".
C28_ScriptRewritesUrl ==
  (n_pc = "imported" /\ new_urls # <<>>) =>
    /\ get_base_url = new_urls[Len(new_urls)]
    /\ get_backend_url = new_urls[Len(new_urls)] \o "/generate"

(***************************************************************************)
(* Properties of the backend endpoint                                      *)
(***************************************************************************)

\* C29: POST /generate always answers: model "Pix2Pix" is generated locally
\* and any other model is forwarded to Colab once, with no retry; a non-200
\* answer of Colab and any exception give an HTTP 500 JSON error; an image
\* response is given only when the generation or the forward succeeded.
C29_BackendNeverRaises ==
  /\ Len(b_calls) <= 1
  /\ \A i \in 1..Len(b_calls) :
       b_calls[i].to = (IF b_model = "Pix2Pix" THEN "local" ELSE "colab")
  /\ b_pc = "done" =>
       /\ b_response \in {Image200(b_response.by), Error500(b_response.by)}
       /\ b_response.status = 200 <=>
            /\ Len(b_calls) = 1
            /\ b_calls[1].o = "bytes" \/ Status200(b_calls[1].o)
       /\ (b_calls # <<>> /\ b_calls[1].o \in {"s404", "s500", "timeout", "connerr", "raises"})
            => b_response.status = 500

\* Colab answers 404: one forward, HTTP 500 with a JSON body
C29_Witness ==
  /\ b_pc = "done"
  /\ b_model = "FLUX"
  /\ b_calls = <<[to |-> "colab", o |-> "s404"]>>
  /\ b_response = Error500("colab")

(***************************************************************************)
(* Properties of the Gradio helpers                                        *)
(***************************************************************************)

ListedExits ==
  {"success", "empty_result", "client_exception", "fallback_success",
   "fallback_failure"}

\* C30: when call_sdxl_gradio_api, call_gradio_sdxl_robust or
\* call_3d_model_api returns, on success, on an empty result, after a client
\* exception and after the local fallback succeeded or failed, the temporary
\* image file created for the call has been deleted.
C30_TempFileDeleted ==
  (g_pc = "returned" /\ g_exit \in ListedExits) =>
     /\ g_created # NoPath
     /\ g_created \notin temp_files
     /\ temp_files = {}

\* the 3D helper returns after its local fallback failed, and its file is gone
C30_Witness ==
  /\ g_pc = "returned"
  /\ g_fn = "call_3d_model_api"
  /\ g_exit = "fallback_failure"
  /\ g_created = 2
  /\ temp_files = {}

====
